---- MODULE Spec2Model ----
(***************************************************************************)
(* LotLister: the image grouping engine (lib/grouping), the routes that    *)
(* drive it (upload, regroup, clone, card delete, bulk PATCH) and the eBay  *)
(* export (lib/export-csv and the export/ebay route).                       *)
(*                                                                         *)
(* The specifications of the module:                                       *)
(*   Spec        the card/image tables of one lot under every operation    *)
(*   SpecFair    Spec where the server resumes every handler it started     *)
(*   SpecRegroup a lot that holds one upload, under regroup and bulk PATCH  *)
(*   SpecGroup   groupImages, its loop taken one iteration at a time        *)
(*   SpecExport  the eBay export of a lot's cards under an export profile   *)
(*   SpecCard    the title and readiness functions applied to one card      *)
(*   SpecSchedule calculateScheduleTime applied to a profile and an index   *)
(*   SpecCsv     escapeCSV, toCSVRow and the joining of the rows of a file  *)
(*   SpecRow     the values of one data row against the header's columns    *)
(*   SpecFile    the rows of the two export files, info row and header      *)
(*   SpecPic     the PicURL cell: the image URLs of one card                *)
(*   SpecFilename the download names of the two export files                *)
(*   SpecPage    the lot page: cell edits, the debounced save, bulk edits   *)
(*   SpecPageFair SpecPage where time passes and due timers fire            *)
(*   SpecImport  the import page: arranging the files, then the upload      *)
(***************************************************************************)
EXTENDS Integers, Sequences, FiniteSets, TLC

\* ------------------------------------------------------------------ bounds
MaxImages == 2
MaxIter == 4
MaxCards == 2
MaxOrder == 2
MaxLotImages == 2
MaxGroupImages == 3

\* ------------------------------------------------------- filenames, sorting

\* Filenames are sequences of one-character strings.
Digits == {"0", "1", "2", "3", "4", "5", "6", "7", "8", "9"}

DigitVal(c) ==
  CASE c = "0" -> 0 [] c = "1" -> 1 [] c = "2" -> 2 [] c = "3" -> 3
    [] c = "4" -> 4 [] c = "5" -> 5 [] c = "6" -> 6 [] c = "7" -> 7
    [] c = "8" -> 8 [] c = "9" -> 9

\* Primary collation weight of a character: sensitivity 'base' ignores case,
\* punctuation collates before digits and digits before letters.
PrimaryWeight(c) ==
  CASE c = "_" -> -3
    [] c = "-" -> -2
    [] c = "." -> -1
    [] c \in Digits -> DigitVal(c)
    [] c \in {"a", "A"} -> 10
    [] c \in {"b", "B"} -> 11
    [] c \in {"c", "C"} -> 12
    [] OTHER -> 13

\* Length of the digit run that starts s.
RECURSIVE DigitRunLen(_)
DigitRunLen(s) ==
  IF s = <<>> \/ Head(s) \notin Digits THEN 0 ELSE 1 + DigitRunLen(Tail(s))

\* Numeric value of a sequence of digits.
RECURSIVE NumValue(_, _)
NumValue(s, acc) ==
  IF s = <<>> THEN acc ELSE NumValue(Tail(s), 10 * acc + DigitVal(Head(s)))

Sign(x) == IF x < 0 THEN -1 ELSE IF x > 0 THEN 1 ELSE 0

\* a.localeCompare(b, undefined, {numeric: true, sensitivity: 'base'}):
\* digit runs compare by value, everything else by primary weight.
RECURSIVE localeCompare(_, _)
localeCompare(a, b) ==
  IF a = <<>> /\ b = <<>> THEN 0
  ELSE IF a = <<>> THEN -1
  ELSE IF b = <<>> THEN 1
  ELSE IF Head(a) \in Digits /\ Head(b) \in Digits
    THEN LET la == DigitRunLen(a)
             lb == DigitRunLen(b)
             va == NumValue(SubSeq(a, 1, la), 0)
             vb == NumValue(SubSeq(b, 1, lb), 0)
         IN IF va # vb THEN Sign(va - vb)
            ELSE localeCompare(SubSeq(a, la + 1, Len(a)), SubSeq(b, lb + 1, Len(b)))
  ELSE IF PrimaryWeight(Head(a)) # PrimaryWeight(Head(b))
    THEN Sign(PrimaryWeight(Head(a)) - PrimaryWeight(Head(b)))
  ELSE localeCompare(Tail(a), Tail(b))

\* Insert x into the sorted sequence s after every element that does not
\* compare greater: Array.prototype.sort is stable.
RECURSIVE InsertStable(_, _)
InsertStable(s, x) ==
  IF s = <<>> THEN <<x>>
  ELSE IF localeCompare(Head(s).filename, x.filename) <= 0
    THEN <<Head(s)>> \o InsertStable(Tail(s), x)
  ELSE <<x>> \o s

RECURSIVE SortFrom(_, _)
SortFrom(images, acc) ==
  IF images = <<>> THEN acc
  ELSE SortFrom(Tail(images), InsertStable(acc, Head(images)))

sortImages(images) == SortFrom(images, <<>>)

\* Array.prototype.slice(start, end) with its negative-index rules.
Slice(s, start, end) ==
  LET n == Len(s)
      from == IF start < 0 THEN (IF n + start < 0 THEN 0 ELSE n + start)
              ELSE (IF start > n THEN n ELSE start)
      to == IF end < 0 THEN (IF n + end < 0 THEN 0 ELSE n + end)
            ELSE (IF end > n THEN n ELSE end)
  IN IF from >= to THEN <<>> ELSE SubSeq(s, from + 1, to)

\* groupImages.map((img, idx) => ({...img, sortOrder: idx}))
Renumber(imgs) == [k \in 1..Len(imgs) |-> [imgs[k] EXCEPT !.sortOrder = k - 1]]

\* One iteration of the loop of groupImages: the group pushed at index i.
GroupAtShort(sortedImages, i, imagesPerCard) ==
  Renumber(Slice(sortedImages, i, i + imagesPerCard - 1))

GroupAt(sortedImages, i, imagesPerCard) ==
  Renumber(Slice(sortedImages, i, i + imagesPerCard))

\* The loop of groupImages from index i on, for a positive step (with a step
\* <= 0 the loop does not end: see GroupStep).
RECURSIVE GroupLoop(_, _, _, _)
GroupLoop(sortedImages, i, imagesPerCard, groups) ==
  IF i < Len(sortedImages)
    THEN GroupLoop(sortedImages, i + imagesPerCard, imagesPerCard,
                   Append(groups, GroupAt(sortedImages, i, imagesPerCard)))
    ELSE groups

groupImages(images, imagesPerCard) ==
  GroupLoop(sortImages(images), 0, imagesPerCard, <<>>)

\* parseInt(text): an optional sign, then the leading digit run; NaN when
\* there is none.  The result is [nan, val].
parseInt(text) ==
  LET neg == text # <<>> /\ Head(text) = "-"
      body == IF text # <<>> /\ Head(text) \in {"-", "+"} THEN Tail(text) ELSE text
      run == DigitRunLen(body)
      v == NumValue(SubSeq(body, 1, run), 0)
  IN IF run = 0 THEN [nan |-> TRUE, val |-> 0]
     ELSE [nan |-> FALSE, val |-> IF neg THEN 0 - v ELSE v]

\* parseInt(body.imagesPerCard) || 2: NaN and 0 are falsy and become 2.
ParseImagesPerCard(raw) ==
  LET parsed == parseInt(raw)
  IN IF parsed.nan \/ parsed.val = 0 THEN 2 ELSE parsed.val

\* ------------------------------------------------------------------ state

VARIABLES
  cardItems,    \* CardItem rows of the lot: [id, sortOrder, title]
  cardImages,   \* CardImage rows: [id, cardItemId, filename, sortOrder]
  req,          \* the regroup request of each worker: [pc, newGroups]
  serverHung,   \* a synchronous loop that never ends holds the event loop
  g_images, g_n, g_sorted, g_i, g_groups, g_pc,  \* groupImages, step by step
  x_cards,      \* the lot's cards as the export reads them (by sortOrder)
  x_profile,    \* lot.exportProfile: <<>> (none saved) or <<profile>>
  x_resp,       \* the response of the export request, <<>> before it
  f_in,         \* the argument of a library function under call
  f_ret,        \* <<>> before the call returns, then <<[fn, value]>>
  lot,            \* the lot page's state: cardItems as the grid shows them
  pendingChanges, \* Map cardId -> {field: value} of edits not yet sent
  saveTimeout,    \* the page's saveTimeout state: a timer id, 0 for null
  closureTimeout, \* saveTimeout as the rendered handleCellChange holds it
  timers,         \* the armed timers: id -> milliseconds left
  inFlight,       \* the PATCH requests sent and not yet answered to the page
  serverCards,    \* the cards' fields in the database
  patched,        \* every <<card, field, value>> saveChanges has sent
  lastEdit,       \* the value of the last handleCellChange per card and field
  sinceEdit,      \* milliseconds since the last handleCellChange
  edits,          \* the number of edits the user has made
  filesWithUrls,   \* the import page's files, in the order the page shows them
  selectedPerCard  \* the import page's imagesPerCard select

dbvars == <<cardItems, cardImages, req, serverHung>>
gvars == <<g_images, g_n, g_sorted, g_i, g_groups, g_pc>>
xvars == <<x_cards, x_profile, x_resp>>
fvars == <<f_in, f_ret>>
pvars == <<lot, pendingChanges, saveTimeout, closureTimeout, timers, inFlight,
           serverCards, patched, lastEdit, sinceEdit, edits>>
ivars == <<filesWithUrls, selectedPerCard>>
vars == <<dbvars, gvars, xvars, fvars, pvars, ivars>>

Procs == {1, 2}

\* File names a client sends (without the extension, which is ".jpg").
ClientNames == { <<"a", "2">>, <<"a", "1", "0">>, <<"A", "2">> }

\* What a client can send as imagesPerCard: missing or non-numeric, zero,
\* negative, positive.
RawSizes == { <<"x">>, <<"0">>, <<"-", "1">>, <<"1">>, <<"2">>, <<"3">> }

MaxClock == 1

DigitChar(d) ==
  CASE d = 0 -> "0" [] d = 1 -> "1" [] d = 2 -> "2" [] d = 3 -> "3" [] d = 4 -> "4"
    [] d = 5 -> "5" [] d = 6 -> "6" [] d = 7 -> "7" [] d = 8 -> "8" [] d = 9 -> "9"

\* saveImage: uniqueFilename = `${baseName}_${timestamp}${ext}`; the original
\* path is `uploads/${lotId}/${uniqueFilename}`, one per unique filename.
uniqueFilename(baseName, timestamp) ==
  baseName \o <<"_", DigitChar(timestamp)>> \o <<".", "j", "p", "g">>

\* Injective sequences of length n over the set S.
InjSeqs(S, n) ==
  {f \in [1..n -> S] : \A i, j \in 1..n : i # j => f[i] # f[j]}

\* What Date.now() returns over n calls (one digit each): the wall clock is
\* not monotonic, and two calls may fall in the same millisecond.
ClockSeqs(n) == [1..n -> 1..MaxClock]

\* Identifiers (uuidv4 for cards, the database default for image rows) are
\* fresh: the k smallest numbers no row and no pending request holds.
RECURSIVE FreshIds(_, _, _)
FreshIds(used, k, from) ==
  IF k = 0 THEN <<>>
  ELSE IF from \in used THEN FreshIds(used, k, from + 1)
  ELSE <<from>> \o FreshIds(used, k - 1, from + 1)

ReservedCardIds ==
  UNION {{req[p].newGroups[k].cardItemId : k \in 1..Len(req[p].newGroups)} : p \in Procs}

UsedCardIds == {c.id : c \in cardItems} \cup ReservedCardIds

UsedImageIds == {img.id : img \in cardImages}

CardOf(img) == CHOOSE c \in cardItems : c.id = img.cardItemId

ImagesOf(cardId) == {img \in cardImages : img.cardItemId = cardId}

\* prisma.cardItem.findMany({include: {images: true}, orderBy: {sortOrder:
\* 'asc'}}) flattened: cards ascending by sortOrder (rows with equal sortOrder
\* in any order), each card's images together, in an order the query does not
\* fix.
FlatReads ==
  LET n == Cardinality(cardImages)
  IN {f \in InjSeqs(cardImages, n) :
        /\ \A i, j \in 1..n : i < j => CardOf(f[i]).sortOrder <= CardOf(f[j]).sortOrder
        /\ \A i, j, k \in 1..n :
             (i < k /\ k < j /\ f[i].cardItemId = f[j].cardItemId)
               => f[k].cardItemId = f[i].cardItemId}

ImageInfo(img) ==
  [id |-> img.id, filename |-> img.filename, sortOrder |-> img.sortOrder]

\* groupImages as its callers see it: each group with its uuidv4() card id.
CardGroups(images, imagesPerCard, used) ==
  LET groups == groupImages(images, imagesPerCard)
      ids == FreshIds(used, Len(groups), 1)
  IN [k \in 1..Len(groups) |-> [cardItemId |-> ids[k], images |-> groups[k]]]

\* Number of images in the groups before group k.
RECURSIVE ImagesBefore(_, _)
ImagesBefore(groups, k) ==
  IF k <= 1 THEN 0 ELSE ImagesBefore(groups, k - 1) + Len(groups[k - 1].images)

\* createCardItemsFromGroups: the rows one committed transaction adds.
\* Group i gets sortOrder i (0-based); its images are new rows.
NewCardItems(groups) ==
  {[id |-> groups[k].cardItemId, sortOrder |-> k - 1, title |-> ""] : k \in 1..Len(groups)}

NewCardImages(groups) ==
  LET total == ImagesBefore(groups, Len(groups) + 1)
      ids == FreshIds(UsedImageIds, total, 1)
  IN UNION {{[id |-> ids[ImagesBefore(groups, k) + x],
              cardItemId |-> groups[k].cardItemId,
              filename |-> groups[k].images[x].filename,
              sortOrder |-> groups[k].images[x].sortOrder]
             : x \in 1..Len(groups[k].images)}
            : k \in 1..Len(groups)}

IdleReq == [pc |-> "idle", newGroups |-> <<>>]

\* Rows a pending regroup is still to create.
RECURSIVE PendingCards(_)
PendingCards(P) ==
  IF P = {} THEN 0
  ELSE LET p == CHOOSE q \in P : TRUE
       IN Len(req[p].newGroups) + PendingCards(P \ {p})

RECURSIVE PendingImages(_)
PendingImages(P) ==
  IF P = {} THEN 0
  ELSE LET p == CHOOSE q \in P : TRUE
       IN ImagesBefore(req[p].newGroups, Len(req[p].newGroups) + 1)
            + PendingImages(P \ {p})

\* The model's bound on the size of the lot: room for k more cards holding
\* m more images.
HasRoom(k, m) ==
  /\ Cardinality(cardItems) + PendingCards(Procs) + k <= MaxCards
  /\ Cardinality(cardImages) + PendingImages(Procs) + m <= MaxImages

GroupIdle ==
  /\ g_images = <<>> /\ g_n = 1 /\ g_sorted = <<>>
  /\ g_i = 0 /\ g_groups = <<>> /\ g_pc = "off"

ExportIdle ==
  /\ x_cards = <<>> /\ x_profile = <<>> /\ x_resp = <<>>

FnIdle ==
  /\ f_in = <<>> /\ f_ret = <<>>

PageIdle ==
  /\ lot = <<>> /\ pendingChanges = <<>> /\ saveTimeout = 0 /\ closureTimeout = 0
  /\ timers = <<>> /\ inFlight = <<>> /\ serverCards = <<>> /\ patched = {}
  /\ lastEdit = <<>> /\ sinceEdit = 0 /\ edits = 0

ImportIdle ==
  /\ filesWithUrls = <<>> /\ selectedPerCard = 2

InitDB ==
  /\ cardItems = {} /\ cardImages = {}
  /\ req = [p \in Procs |-> IdleReq]
  /\ serverHung = FALSE

\* --------------------------------------------------------------- operations

\* POST /api/lots/[lotId]/upload: every file is saved (saveImage), the images
\* are grouped and the cards are created in one transaction, which commits or
\* rolls back as a whole.  A group size <= 0 never leaves groupImages.
Upload(files, stamps, raw, commit) ==
  LET n == ParseImagesPerCard(raw)
      uploadedImages ==
        [k \in 1..Len(files) |->
           [id |-> k, filename |-> uniqueFilename(files[k], stamps[k]),
            sortOrder |-> k - 1]]
      groups == CardGroups(uploadedImages, n, UsedCardIds)
  IN /\ ~serverHung
     /\ Len(files) > 0
     /\ HasRoom(IF n <= 0 THEN 0 ELSE Len(groups), Len(files))
     /\ IF n <= 0
          THEN /\ serverHung' = TRUE
               /\ UNCHANGED <<cardItems, cardImages>>
          ELSE /\ UNCHANGED serverHung
               /\ IF commit
                    THEN /\ cardItems' = cardItems \cup NewCardItems(groups)
                         /\ cardImages' = cardImages \cup NewCardImages(groups)
                    ELSE UNCHANGED <<cardItems, cardImages>>
     /\ UNCHANGED <<req, gvars, xvars, fvars, pvars, ivars>>

\* regroupLotImages up to its first write: read the lot's cards, flatten the
\* images, return when there are none, compute the new groups.
RegroupBegin(p, raw) ==
  /\ ~serverHung
  /\ req[p].pc = "idle"
  /\ Cardinality(cardImages) <= MaxLotImages
  /\ \E flat \in FlatReads :
       LET n == ParseImagesPerCard(raw)
           allImages == [k \in 1..Len(flat) |-> ImageInfo(flat[k])]
       IN IF Len(allImages) = 0
            THEN /\ req' = [req EXCEPT ![p] = [pc |-> "done", newGroups |-> <<>>]]
                 /\ UNCHANGED serverHung
            ELSE IF n <= 0
              THEN /\ req' = [req EXCEPT ![p] = [pc |-> "grouping", newGroups |-> <<>>]]
                   /\ serverHung' = TRUE
              ELSE /\ req' = [req EXCEPT ![p] =
                                [pc |-> "grouped",
                                 newGroups |-> CardGroups(allImages, n, UsedCardIds)]]
                   /\ UNCHANGED serverHung
  /\ UNCHANGED <<cardItems, cardImages, gvars, xvars, fvars, pvars, ivars>>

\* prisma.cardItem.deleteMany({where: {lotId}}): the cascade deletes the images.
RegroupDelete(p) ==
  /\ ~serverHung
  /\ req[p].pc = "grouped"
  /\ cardItems' = {}
  /\ cardImages' = {}
  /\ req' = [req EXCEPT ![p].pc = "deleted"]
  /\ UNCHANGED <<serverHung, gvars, xvars, fvars, pvars, ivars>>

\* createCardItemsFromGroups(lotId, newGroups): one transaction; when a create
\* in it throws, the transaction rolls back and the route answers 500.
RegroupCreate(p, commit) ==
  /\ ~serverHung
  /\ req[p].pc = "deleted"
  /\ IF commit
       THEN /\ cardItems' = cardItems \cup NewCardItems(req[p].newGroups)
            /\ cardImages' = cardImages \cup NewCardImages(req[p].newGroups)
            /\ req' = [req EXCEPT ![p].pc = "done"]
       ELSE /\ UNCHANGED <<cardItems, cardImages>>
            /\ req' = [req EXCEPT ![p].pc = "failed"]
  /\ UNCHANGED <<serverHung, gvars, xvars, fvars, pvars, ivars>>

\* The route counts the cards and answers (200, or 500 from its catch).
RegroupRespond(p) ==
  /\ ~serverHung
  /\ req[p].pc \in {"done", "failed"}
  /\ req' = [req EXCEPT ![p] = IdleReq]
  /\ UNCHANGED <<cardItems, cardImages, serverHung, gvars, xvars, fvars, pvars, ivars>>

\* PATCH /api/lots/[lotId]/cards: one transaction of updates of rows of the lot.
Patch(ids, title) ==
  /\ ~serverHung
  /\ ids # {}
  /\ ids \subseteq {c.id : c \in cardItems}
  /\ cardItems' = {IF c.id \in ids THEN [c EXCEPT !.title = title] ELSE c : c \in cardItems}
  /\ cardItems' # cardItems
  /\ UNCHANGED <<cardImages, req, serverHung, gvars, xvars, fvars, pvars, ivars>>

\* maxSortOrder._max.sortOrder of the aggregate (0 stands for null here: the
\* route reads it through `|| 0`).
MaxSortOrder ==
  IF cardItems = {} THEN 0
  ELSE CHOOSE m \in {c.sortOrder : c \in cardItems} :
         \A c \in cardItems : c.sortOrder <= m

\* The images of a card ascending by sortOrder (rows with equal sortOrder in
\* any order).
OrderedImages(cardId) ==
  LET S == ImagesOf(cardId)
  IN {f \in InjSeqs(S, Cardinality(S)) :
        \A i, j \in 1..Cardinality(S) : i < j => f[i].sortOrder <= f[j].sortOrder}

\* POST /api/lots/[lotId]/cards/[cardId]/clone
Clone(cardId, imgs) ==
  LET original == CHOOSE c \in cardItems : c.id = cardId
      newId == FreshIds(UsedCardIds, 1, 1)[1]
      imgIds == FreshIds(UsedImageIds, Len(imgs), 1)
  IN /\ ~serverHung
     /\ cardId \in {c.id : c \in cardItems}
     /\ HasRoom(1, Len(imgs))
     /\ MaxSortOrder < MaxOrder
     /\ cardItems' = cardItems \cup
          {[id |-> newId, sortOrder |-> MaxSortOrder + 1, title |-> original.title]}
     /\ cardImages' = cardImages \cup
          {[id |-> imgIds[x], cardItemId |-> newId,
            filename |-> imgs[x].filename, sortOrder |-> x - 1] : x \in 1..Len(imgs)}
     /\ UNCHANGED <<req, serverHung, gvars, xvars, fvars, pvars, ivars>>

\* DELETE /api/lots/[lotId]/cards/[cardId]: the cascade deletes its images.
DeleteCard(cardId) ==
  /\ ~serverHung
  /\ cardId \in {c.id : c \in cardItems}
  /\ cardItems' = {c \in cardItems : c.id # cardId}
  /\ cardImages' = {img \in cardImages : img.cardItemId # cardId}
  /\ UNCHANGED <<req, serverHung, gvars, xvars, fvars, pvars, ivars>>

\* moveImageToCard(imageId, targetCardItemId, newSortOrder): one update.
moveImageToCard(imageId, targetCardItemId, newSortOrder) ==
  /\ ~serverHung
  /\ imageId \in {img.id : img \in cardImages}
  /\ targetCardItemId \in {c.id : c \in cardItems}
  /\ cardImages' = {IF img.id = imageId
                      THEN [img EXCEPT !.cardItemId = targetCardItemId,
                                       !.sortOrder = newSortOrder]
                      ELSE img : img \in cardImages}
  /\ cardImages' # cardImages
  /\ UNCHANGED <<cardItems, req, serverHung, gvars, xvars, fvars, pvars, ivars>>

\* reorderImagesInCard(cardItemId, imageIds): image imageIds[index] gets
\* sortOrder index; cardItemId is not read.
reorderImagesInCard(cardItemId, imageIds) ==
  /\ ~serverHung
  /\ Len(imageIds) > 0
  /\ \A k \in 1..Len(imageIds) : imageIds[k] \in {img.id : img \in cardImages}
  /\ cardImages' =
       {IF \E k \in 1..Len(imageIds) : imageIds[k] = img.id
          THEN [img EXCEPT !.sortOrder =
                  (CHOOSE k \in 1..Len(imageIds) : imageIds[k] = img.id) - 1]
          ELSE img : img \in cardImages}
  /\ cardImages' # cardImages
  /\ UNCHANGED <<cardItems, req, serverHung, gvars, xvars, fvars, pvars, ivars>>

\* ------------------------------------------------ groupImages, step by step

\* Filenames groupImages is given (ImageInfo.filename).
GroupNames == { <<"a", "2">>, <<"a", "1", "0">>, <<"A", "2">>, <<"b", "1">> }

\* Group sizes groupImages is called with.
GroupSizes == -1..3

GroupInputs ==
  UNION {{[k \in 1..n |-> [id |-> k, filename |-> f[k], sortOrder |-> k - 1]]
            : f \in InjSeqs(GroupNames, n)} : n \in 0..MaxGroupImages}

InitGroup ==
  /\ g_images \in GroupInputs
  /\ g_n \in GroupSizes
  /\ g_sorted = <<>> /\ g_i = 0 /\ g_groups = <<>>
  /\ g_pc = "start"

\* const sortedImages = sortImages(images); const groups = []; let i = 0
GroupSort ==
  /\ g_pc = "start"
  /\ g_sorted' = sortImages(g_images)
  /\ g_i' = 0
  /\ g_groups' = <<>>
  /\ g_pc' = "loop"
  /\ UNCHANGED <<g_images, g_n, dbvars, xvars, fvars, pvars, ivars>>

\* One iteration: i < sortedImages.length; push; i += imagesPerCard.  The
\* model stops following a loop after MaxIter iterations.
GroupStep ==
  /\ g_pc = "loop"
  /\ g_i < Len(g_sorted)
  /\ Len(g_groups) < MaxIter
  /\ g_groups' = Append(g_groups, GroupAt(g_sorted, g_i, g_n))
  /\ g_i' = g_i + g_n
  /\ UNCHANGED <<g_images, g_n, g_sorted, g_pc, dbvars, xvars, fvars, pvars, ivars>>

\* return groups
GroupReturn ==
  /\ g_pc = "loop"
  /\ ~(g_i < Len(g_sorted))
  /\ g_pc' = "done"
  /\ UNCHANGED <<g_images, g_n, g_sorted, g_i, g_groups, dbvars, xvars, fvars, pvars, ivars>>

NextGroup == GroupSort \/ GroupStep \/ GroupReturn

InitGroupCall == InitGroup /\ InitDB /\ ExportIdle /\ FnIdle /\ PageIdle /\ ImportIdle

SpecGroup == InitGroupCall /\ [][NextGroup]_vars

\* ---------------------------------------------------------- specifications

Init == InitDB /\ GroupIdle /\ ExportIdle /\ FnIdle /\ PageIdle /\ ImportIdle

Next ==
  \/ \E n \in 1..MaxImages : \E files \in InjSeqs(ClientNames, n) :
       \E stamps \in ClockSeqs(n) : \E raw \in RawSizes : \E commit \in BOOLEAN :
         Upload(files, stamps, raw, commit)
  \/ \E raw \in RawSizes : RegroupBegin(1, raw)
  \/ RegroupDelete(1)
  \/ \E commit \in BOOLEAN : RegroupCreate(1, commit)
  \/ RegroupRespond(1)
  \/ \E c \in cardItems : \E imgs \in OrderedImages(c.id) : Clone(c.id, imgs)
  \/ \E c \in cardItems : DeleteCard(c.id)
  \/ \E img \in cardImages : \E c \in cardItems : \E so \in 0..MaxImages - 1 :
       moveImageToCard(img.id, c.id, so)
  \/ \E c \in cardItems : \E n \in 1..Cardinality(ImagesOf(c.id)) :
       \E ids \in InjSeqs({img.id : img \in ImagesOf(c.id)}, n) :
         reorderImagesInCard(c.id, ids)

Spec == Init /\ [][Next]_vars

\* The server runs every handler it has started: each await of the regroup
\* route is resumed once the database has answered.
SpecFair ==
  /\ Init /\ [][Next]_vars
  /\ WF_vars(RegroupDelete(1))
  /\ WF_vars(\E commit \in BOOLEAN : RegroupCreate(1, commit))
  /\ WF_vars(RegroupRespond(1))

\* A lot that holds the cards of one committed upload.
InitRegroup ==
  /\ \E n \in 1..MaxLotImages : \E files \in InjSeqs(ClientNames, n) :
       \E stamps \in ClockSeqs(n) : \E size \in 1..3 :
         LET uploadedImages ==
               [k \in 1..n |-> [id |-> k, filename |-> uniqueFilename(files[k], stamps[k]),
                                sortOrder |-> k - 1]]
             groups == groupImages(uploadedImages, size)
             cards == [k \in 1..Len(groups) |-> [cardItemId |-> k, images |-> groups[k]]]
         IN /\ cardItems = {[id |-> k, sortOrder |-> k - 1, title |-> ""] : k \in 1..Len(cards)}
            /\ cardImages =
                 UNION {{[id |-> ImagesBefore(cards, k) + x, cardItemId |-> k,
                          filename |-> cards[k].images[x].filename,
                          sortOrder |-> cards[k].images[x].sortOrder]
                         : x \in 1..Len(cards[k].images)} : k \in 1..Len(cards)}
  /\ req = [p \in Procs |-> IdleReq]
  /\ serverHung = FALSE

NextRegroup ==
  \/ \E p \in Procs : \E raw \in RawSizes : RegroupBegin(p, raw)
  \/ \E p \in Procs : RegroupDelete(p)
  \/ \E p \in Procs : \E commit \in BOOLEAN : RegroupCreate(p, commit)
  \/ \E p \in Procs : RegroupRespond(p)
  \/ \E ids \in SUBSET {c.id : c \in cardItems} : Patch(ids, "T")

InitRegroupLot == InitRegroup /\ GroupIdle /\ ExportIdle /\ FnIdle /\ PageIdle /\ ImportIdle

SpecRegroup == InitRegroupLot /\ [][NextRegroup]_vars

\* ------------------------------------------------------------- eBay export

MaxExportCards == 2

\* null / undefined of a text field.
Null == "<null>"

\* CONDITION_TYPE_OPTIONS
GradedType == "Graded: Professionally graded"
UngradedType == "Ungraded: Not in original packaging or professionally graded"

EBAY_CONDITION_IDS == [GRADED |-> "2750", UNGRADED |-> "4000"]

\* EBAY_CARD_CONDITION_CODES[rawCondition]; Null stands for undefined.
EBAY_CARD_CONDITION_CODES(rawCondition) ==
  CASE rawCondition = "Near mint or better: Comparable to a fresh pack" -> "400010"
    [] rawCondition = "Near Mint or Better" -> "400010"
    [] rawCondition = "Excellent: Has clearly visible signs of wear" -> "400020"
    [] rawCondition = "Excellent" -> "400020"
    [] rawCondition = "Very good: Has moderate-to-heavy damage all over" -> "400030"
    [] rawCondition = "Very Good" -> "400030"
    [] rawCondition = "Poor: Is extremely worn and displays flaws all over" -> "400040"
    [] rawCondition = "Poor" -> "400040"
    [] OTHER -> Null

\* a || b on text: null, undefined and '' are falsy.
OrElse(a, b) == IF a = Null \/ a = "" THEN b ELSE a

\* !s || s.trim() === ''
Blank(s) == s = Null \/ s = "" \/ s = " "

\* Free text (title, brand, set, name, card number, subset) is a sequence of
\* characters; NullText is null / undefined.
NullText == <<Null>>

WhiteSpace == {" ", "\t"}

\* A text that is falsy in a condition: null, undefined or ''.
Falsy(t) == t = NullText \/ t = <<>>

\* String.prototype.trim: from the first to the last character that is not
\* white space.
trim(t) ==
  LET solid == {i \in 1..Len(t) : t[i] \notin WhiteSpace}
  IN IF solid = {} THEN <<>>
     ELSE SubSeq(t, CHOOSE i \in solid : \A j \in solid : i <= j,
                    CHOOSE i \in solid : \A j \in solid : j <= i)

\* The variant that does not trim.
BlankTextUntrimmed(t) == Falsy(t)

\* !t || t.trim() === ''
BlankText(t) == Falsy(t) \/ trim(t) = <<>>

\* t.replace(/\s+/g, ' ') on the characters lo..hi of t: a white space that
\* follows a white space is dropped, any other becomes ' '.
RECURSIVE CollapseRange(_, _, _)
CollapseRange(t, lo, hi) ==
  IF lo > hi THEN <<>>
  ELSE IF lo = hi
    THEN IF t[lo] \in WhiteSpace
           THEN (IF lo > 1 /\ t[lo - 1] \in WhiteSpace THEN <<>> ELSE <<" ">>)
           ELSE <<t[lo]>>
    ELSE LET mid == (lo + hi) \div 2
         IN CollapseRange(t, lo, mid) \o CollapseRange(t, mid + 1, hi)

CollapseSpaces(t) == CollapseRange(t, 1, Len(t))

\* parts.join(' ')
RECURSIVE JoinSpace(_)
JoinSpace(parts) ==
  IF parts = <<>> THEN <<>>
  ELSE IF Len(parts) = 1 THEN parts[1]
  ELSE parts[1] \o <<" ">> \o JoinSpace(Tail(parts))

\* String(n) of a year
RECURSIVE NumberText(_)
NumberText(n) ==
  IF n < 10 THEN <<DigitChar(n)>> ELSE NumberText(n \div 10) \o <<DigitChar(n % 10)>>

UntitledCard == <<"U", "n", "t", "i", "t", "l", "e", "d", " ", "C", "a", "r", "d">>

\* if (card.year) parts.push(String(card.year)): null and 0 are falsy.
YearPart(card) ==
  IF card.year = <<>> \/ card.year = <<0>> THEN <<>> ELSE <<NumberText(card.year[1])>>

\* if (field) parts.push(field)
TextPart(t) == IF Falsy(t) THEN <<>> ELSE <<t>>

\* The variant without the fallback.
OrUntitledNone(t) == t

\* The fallback of generateTitle: (...) || 'Untitled Card'
OrUntitled(t) == IF t = <<>> THEN UntitledCard ELSE t

\* generateTitle(card) of lib/export-csv (the same in its four versions).
generateTitle(card) ==
  IF ~Falsy(card.title) /\ trim(card.title) # <<>> THEN trim(card.title)
  ELSE LET parts == YearPart(card)
                    \o TextPart(card.brand)
                    \o TextPart(card.setName)
                    \o (IF Falsy(card.cardNumber) THEN <<>> ELSE <<<<"#">> \o card.cardNumber>>)
                    \o TextPart(card.name)
                    \o TextPart(card.subsetParallel)
       IN OrUntitled(trim(CollapseSpaces(JoinSpace(parts))))

\* if (field?.trim()) parts.push(field.trim())
TrimmedPart(t) == IF BlankText(t) THEN <<>> ELSE <<trim(t)>>

\* generateAutoTitle(card) of the card grid.
generateAutoTitle(card) ==
  JoinSpace(YearPart(card)
            \o TrimmedPart(card.setName)
            \o TrimmedPart(card.name)
            \o (IF BlankText(card.cardNumber) THEN <<>> ELSE <<<<"#">> \o trim(card.cardNumber)>>)
            \o TrimmedPart(card.subsetParallel))

\* title.slice(0, 80) of the row
TitleLimit == 80

\* The variant that does not cut the title.
TitleCellWhole(card) == generateTitle(card)

TitleCell(card) == Slice(generateTitle(card), 0, TitleLimit)

\* The versions of lib/export-csv in the source: 1 (EBAY_CARD_CONDITION_CODES),
\* 2, 3 (no C:Graded column) and 4.
Versions == 1..4

DEFAULT_EXPORT_PROFILE ==
  [scheduleMode |-> "Scheduled", scheduleDate |-> <<>>, scheduleTime |-> <<>>,
   staggerEnabled |-> TRUE, staggerIntervalSeconds |-> 15]

\* Saved export profiles.  A date is a day number, a time the seconds into
\* the day; <<>> is null.
SavedProfiles ==
  [scheduleMode : {"Immediate", "Scheduled"},
   scheduleDate : {<<>>, <<1>>}, scheduleTime : {<<>>, <<60>>},
   staggerEnabled : BOOLEAN, staggerIntervalSeconds : {15}]

\* The card records of the lot.  Every card has one image, a title, a price
\* and the text fields of the grid filled in; the fields below vary.
ExportCardPool ==
  {[conditionType |-> ct, graded |-> g, condition |-> cond,
    grader |-> gr, grade |-> IF gr = Null THEN Null ELSE "10",
    certNo |-> IF gr = Null THEN Null ELSE "123",
    year |-> y, images |-> 1, title |-> <<"T">>, salePrice |-> <<5>>,
    category |-> "Baseball", brand |-> <<"B">>, setName |-> <<"S">>,
    name |-> <<"N">>, cardNumber |-> <<"2", "7">>, subsetParallel |-> <<"P">>]
     : ct \in {GradedType, UngradedType, Null}, g \in BOOLEAN,
       cond \in {Null, "Excellent", "Mint"}, gr \in {Null, "PSA"},
       y \in {<<>>, <<2024>>}}

\* The variant that staggers whether or not staggering is enabled.
calculateScheduleTimeAlwaysStaggered(version, profile, index) ==
  IF profile.scheduleMode = "Immediate" THEN <<>>
  ELSE IF profile.scheduleDate = <<>> \/ profile.scheduleTime = <<>> THEN <<>>
  ELSE <<[instant |-> profile.scheduleDate[1] * 86400 + profile.scheduleTime[1]
                        + index * profile.staggerIntervalSeconds,
          zone |-> IF version = 1 THEN "UTC" ELSE "server"]>>

\* calculateScheduleTime(profile, index): '' (<<>>) or the text of one instant,
\* in seconds; version 1 prints it in UTC (toISOString), the others with
\* format() in the server's zone.
calculateScheduleTime(version, profile, index) ==
  IF profile.scheduleMode = "Immediate" THEN <<>>
  ELSE IF profile.scheduleDate = <<>> \/ profile.scheduleTime = <<>> THEN <<>>
  ELSE LET base == profile.scheduleDate[1] * 86400 + profile.scheduleTime[1]
           offsetSeconds == IF profile.staggerEnabled
                              THEN index * profile.staggerIntervalSeconds ELSE 0
       IN <<[instant |-> base + offsetSeconds,
             zone |-> IF version = 1 THEN "UTC" ELSE "server"]>>

\* The variant that reads the legacy boolean.
isGradedLegacy(card) == card.graded

\* const isGraded = card.conditionType === 'Graded: Professionally graded'
isGraded(card) == card.conditionType = GradedType

conditionId(card) ==
  IF isGraded(card) THEN EBAY_CONDITION_IDS.GRADED ELSE EBAY_CONDITION_IDS.UNGRADED

\* Version 1 maps the descriptor through the table; the others emit its text.
cardCondition(version, card) ==
  LET rawCondition == OrElse(card.condition, "")
  IN IF isGraded(card) THEN ""
     ELSE IF version = 1
       THEN OrElse(EBAY_CARD_CONDITION_CODES(rawCondition), "400010")
       ELSE rawCondition

\* The variant that emits the grader whatever the card's branch.
graderAlways(card) == OrElse(card.grader, "")

grader(card) == IF isGraded(card) THEN OrElse(card.grader, "") ELSE ""
certNo(card) == IF isGraded(card) THEN OrElse(card.certNo, "") ELSE ""
grade(card) == IF isGraded(card) THEN OrElse(card.grade, "") ELSE ""

\* One data row of generateEbayCSV: the cells the card's branch and the
\* schedule decide.  Version 3's header has no C:Graded column.
EbayRow(version, card, profile, i) ==
  LET cells == [Title |-> TitleCell(card),
                ScheduleTime |-> calculateScheduleTime(version, profile, i),
                ConditionID |-> conditionId(card),
                ProfessionalGrader |-> grader(card),
                Grade |-> grade(card),
                CertificationNumber |-> certNo(card),
                CardCondition |-> cardCondition(version, card)]
  IN IF version = 3 THEN cells
     ELSE [k \in DOMAIN cells \cup {"Graded"} |->
             IF k = "Graded" THEN (IF isGraded(card) THEN "Yes" ELSE "No")
             ELSE cells[k]]

\* generateEbayCSV(cards, profile, imageBaseUrl): the data rows, one per card.
generateEbayCSV(version, cards, profile) ==
  [k \in 1..Len(cards) |-> EbayRow(version, cards[k], profile, k - 1)]

\* isCardReadyForExport(card) of the lot page.
isCardReadyForExport(card) ==
  /\ card.images > 0
  /\ ~BlankText(card.title)
  /\ card.salePrice # <<>>
  /\ card.year # <<>>
  /\ ~Blank(card.conditionType)
  /\ ~Blank(card.category)
  /\ ~BlankText(card.brand)
  /\ ~BlankText(card.setName)
  /\ ~BlankText(card.name)
  /\ ~BlankText(card.cardNumber)
  /\ ~BlankText(card.subsetParallel)
  /\ IF isGraded(card) THEN ~Blank(card.grader) /\ ~Blank(card.grade)
     ELSE ~Blank(card.condition)

\* A lot of user "u" with its cards and export profile.
InitExport ==
  /\ \E n \in 1..MaxExportCards : x_cards \in [1..n -> ExportCardPool]
  /\ x_profile \in {<<>>} \cup {<<pr>> : pr \in SavedProfiles}
  /\ x_resp = <<>>

\* const profile = lot.exportProfile || {...DEFAULT_EXPORT_PROFILE}
LotProfile == IF x_profile # <<>> THEN x_profile[1] ELSE DEFAULT_EXPORT_PROFILE

\* The export-time validation of a card: the route passes every card of the
\* lot to generateEbayCSV.
exportValidation(card) == TRUE

\* GET /api/lots/[lotId]/export/ebay for the user of the request (<<>>: no
\* user email), served by one of the versions of the library.
ExportEbay(userEmail, version) ==
  /\ x_resp = <<>>
  /\ IF userEmail = <<>>
       THEN x_resp' = <<[status |-> 401, version |-> version, rows |-> <<>>]>>
       ELSE IF userEmail # <<"u">>
         THEN x_resp' = <<[status |-> 404, version |-> version, rows |-> <<>>]>>
         ELSE x_resp' = <<[status |-> 200, version |-> version,
                           rows |-> generateEbayCSV(version, x_cards, LotProfile)]>>
  /\ UNCHANGED <<x_cards, x_profile, dbvars, gvars, fvars, pvars, ivars>>

NextExport ==
  \E userEmail \in {<<>>, <<"u">>, <<"v">>} : \E version \in Versions :
    ExportEbay(userEmail, version)

InitExportLot == InitExport /\ InitDB /\ GroupIdle /\ FnIdle /\ PageIdle /\ ImportIdle

SpecExport == InitExportLot /\ [][NextExport]_vars

\* --------------------------------------------- the functions over one card

\* isCardComplete(card) of the card grid.
isCardComplete(card) ==
  /\ card.images > 0
  /\ ~BlankText(card.title)
  /\ card.salePrice # <<>>
  /\ card.year # <<>>
  /\ ~Blank(card.conditionType)
  /\ ~Blank(card.category)
  /\ ~BlankText(card.brand)
  /\ ~BlankText(card.setName)
  /\ ~BlankText(card.name)
  /\ ~BlankText(card.cardNumber)
  /\ ~BlankText(card.subsetParallel)
  /\ IF card.conditionType = GradedType THEN ~Blank(card.grader) /\ ~Blank(card.grade)
     ELSE ~Blank(card.condition)

\* A text longer than the title limit.
LongText == [k \in 1..(TitleLimit + 1) |-> "x"]

\* Cards whose mandatory fields are present, blank or missing.
FieldCards ==
  {[conditionType |-> ct, graded |-> FALSE, condition |-> cond,
    grader |-> gr, grade |-> gd, certNo |-> Null,
    year |-> y, images |-> im, title |-> ti, salePrice |-> pr,
    category |-> cat, brand |-> br, setName |-> sn,
    name |-> nm, cardNumber |-> cn, subsetParallel |-> sp]
     : ct \in {Null, " ", GradedType, UngradedType}, cond \in {Null, "Excellent"},
       gr \in {Null, "PSA"}, gd \in {Null, "10"}, y \in {<<>>, <<0>>, <<2024>>},
       im \in {0, 1}, ti \in {NullText, <<" ">>, <<"T">>}, pr \in {<<>>, <<5>>},
       cat \in {Null, "Baseball"}, br \in {NullText, <<"B">>},
       sn \in {NullText, <<"S">>}, nm \in {NullText, <<"N">>},
       cn \in {NullText, <<"7">>}, sp \in {NullText, <<"P">>}}

\* Cards whose title fields carry blanks, inner and outer white space and
\* long texts.
TitleCards ==
  {[conditionType |-> UngradedType, graded |-> FALSE, condition |-> "Excellent",
    grader |-> Null, grade |-> Null, certNo |-> Null,
    year |-> y, images |-> 1, title |-> ti, salePrice |-> <<5>>,
    category |-> "Baseball", brand |-> br, setName |-> sn,
    name |-> nm, cardNumber |-> cn, subsetParallel |-> sp]
     : y \in {<<>>, <<0>>, <<2024>>},
       ti \in {NullText, <<>>, <<" ">>, <<" ", "T", " ", " ", "t", " ">>, LongText},
       br \in {NullText, <<" ">>, <<"B", " ">>},
       sn \in {NullText, <<" ">>, <<"S">>},
       nm \in {NullText, <<"\t">>, <<"M", " ", " ", "T">>},
       cn \in {NullText, <<" ">>, <<"2", "7">>},
       sp \in {NullText, <<" ">>, <<"P">>, LongText}}

\* {year: 2024, setName: 'Topps', name: 'Mike Trout', cardNumber: '27',
\*  subsetParallel: 'Refractor'} with no manual title and no brand.
SampleCard ==
  [conditionType |-> UngradedType, graded |-> FALSE, condition |-> "Excellent",
   grader |-> Null, grade |-> Null, certNo |-> Null,
   year |-> <<2024>>, images |-> 1, title |-> NullText, salePrice |-> <<5>>,
   category |-> "Baseball", brand |-> NullText,
   setName |-> <<"T", "o", "p", "p", "s">>,
   name |-> <<"M", "i", "k", "e", " ", "T", "r", "o", "u", "t">>,
   cardNumber |-> <<"2", "7">>,
   subsetParallel |-> <<"R", "e", "f", "r", "a", "c", "t", "o", "r">>]

InitCard ==
  /\ f_in \in FieldCards \cup TitleCards \cup {SampleCard}
  /\ f_ret = <<>>
  /\ InitDB /\ GroupIdle /\ ExportIdle /\ PageIdle /\ ImportIdle

Return(fn, value) ==
  /\ f_ret = <<>>
  /\ f_ret' = <<[fn |-> fn, value |-> value]>>
  /\ UNCHANGED <<f_in, dbvars, gvars, xvars, pvars, ivars>>

CallGenerateTitle == Return("generateTitle", generateTitle(f_in))

CallGenerateAutoTitle == Return("generateAutoTitle", generateAutoTitle(f_in))

CallIsCardComplete == Return("isCardComplete", isCardComplete(f_in))

CallIsCardReadyForExport == Return("isCardReadyForExport", isCardReadyForExport(f_in))

\* The row generateEbayCSV builds for the card at index 0 under the default
\* profile.
CallEbayRow(version) ==
  Return("EbayRow", EbayRow(version, f_in, DEFAULT_EXPORT_PROFILE, 0))

NextCard ==
  \/ CallGenerateTitle
  \/ CallGenerateAutoTitle
  \/ CallIsCardComplete
  \/ CallIsCardReadyForExport
  \/ \E version \in Versions : CallEbayRow(version)

SpecCard == InitCard /\ [][NextCard]_vars

\* ------------------------------------------------ the schedule of one row

\* The largest export index of a call.
MaxIndex == 3

\* Export profiles: a base day and second of the day (one of them just before
\* midnight), staggering on or off, and an interval.
ScheduleProfiles ==
  [scheduleMode : {"Immediate", "Scheduled"},
   scheduleDate : {<<>>, <<1>>}, scheduleTime : {<<>>, <<60>>, <<86390>>},
   staggerEnabled : BOOLEAN, staggerIntervalSeconds : {0, 15, 3600}]

\* A call calculateScheduleTime(profile, index) in one version of the library.
InitSchedule ==
  /\ f_in \in [version : Versions, profile : ScheduleProfiles, index : 0..MaxIndex]
  /\ f_ret = <<>>
  /\ InitDB /\ GroupIdle /\ ExportIdle /\ PageIdle /\ ImportIdle

CallCalculateScheduleTime ==
  Return("calculateScheduleTime",
         calculateScheduleTime(f_in.version, f_in.profile, f_in.index))

NextSchedule == CallCalculateScheduleTime

SpecSchedule == InitSchedule /\ [][NextSchedule]_vars

\* ----------------------------------------------------------- the CSV codec

\* Bounds of the values, rows and tables given to the codec.
MaxFieldLen == 2
MaxFields == 2
MaxRows == 2

\* A value of type string | number | boolean | null | undefined.
StringValue(chars) == [kind |-> "string", chars |-> chars, num |-> 0]
NullValue == [kind |-> "null", chars |-> <<>>, num |-> 0]
NumberValue(n) == [kind |-> "number", chars |-> <<>>, num |-> n]
BooleanValue(b) == [kind |-> "boolean", chars |-> <<>>, num |-> IF b THEN 1 ELSE 0]

\* String(value)
String(value) ==
  CASE value.kind = "string" -> value.chars
    [] value.kind = "number" -> NumberText(value.num)
    [] value.kind = "boolean" ->
         IF value.num = 1 THEN <<"t", "r", "u", "e">> ELSE <<"f", "a", "l", "s", "e">>
    [] OTHER -> <<"n", "u", "l", "l">>

\* str.includes(',') || str.includes('"') || str.includes('\n') || str.includes('\r')
NeedsQuotes(str) == \E i \in 1..Len(str) : str[i] \in {",", "\"", "\n", "\r"}

\* str.replace(/"/g, '""')
RECURSIVE DoubleQuotes(_)
DoubleQuotes(str) ==
  IF str = <<>> THEN <<>>
  ELSE (IF Head(str) = "\"" THEN <<"\"", "\"">> ELSE <<Head(str)>>)
         \o DoubleQuotes(Tail(str))

\* The variant that wraps without doubling the quotes inside.
escapeCSVPlainWrap(value) ==
  IF value.kind = "null" THEN <<>>
  ELSE IF NeedsQuotes(String(value))
    THEN <<"\"">> \o String(value) \o <<"\"">>
    ELSE String(value)

\* escapeCSV(value)
escapeCSV(value) ==
  IF value.kind = "null" THEN <<>>
  ELSE LET str == String(value)
       IN IF NeedsQuotes(str)
            THEN <<"\"">> \o DoubleQuotes(str) \o <<"\"">>
            ELSE str

\* texts.join(separator)
RECURSIVE Join(_, _)
Join(texts, separator) ==
  IF texts = <<>> THEN <<>>
  ELSE IF Len(texts) = 1 THEN texts[1]
  ELSE texts[1] \o separator \o Join(Tail(texts), separator)

\* toCSVRow(values) = values.map(escapeCSV).join(',')
toCSVRow(values) == Join([k \in 1..Len(values) |-> escapeCSV(values[k])], <<",">>)

\* generateRawCSV and generateEbayCSV over the value vectors of the header
\* and of the cards: rows.push(toCSVRow(...)) for each, then
\* rows.join('\r\n').
generateCSV(table) ==
  Join([k \in 1..Len(table) |-> toCSVRow(table[k])], <<"\r", "\n">>)

CsvAlphabet == {"a", ",", "\"", "\n", "\r"}

RECURSIVE TextsUpTo(_)
TextsUpTo(n) ==
  IF n = 0 THEN {<<>>}
  ELSE TextsUpTo(n - 1)
         \cup {Append(t, c) : t \in {u \in TextsUpTo(n - 1) : Len(u) = n - 1},
                               c \in CsvAlphabet}

\* Values: every string up to MaxFieldLen characters, null, numbers, a boolean.
CsvValues ==
  {StringValue(t) : t \in TextsUpTo(MaxFieldLen)}
    \cup {NullValue, NumberValue(5), NumberValue(12), BooleanValue(TRUE)}

\* The values of the longer rows: strings of at most one character.
SmallValues == {v \in CsvValues : Len(v.chars) <= 1}

RECURSIVE RowsOver(_, _)
RowsOver(values, n) ==
  IF n = 0 THEN {<<>>}
  ELSE RowsOver(values, n - 1)
         \cup {Append(r, v) : r \in {q \in RowsOver(values, n - 1) : Len(q) = n - 1},
                               v \in values}

\* Rows have at least one value, as every header and value vector has.
CsvRows ==
  {<<v>> : v \in CsvValues} \cup (RowsOver(SmallValues, MaxFields) \ {<<>>})

\* The rows of the tables: no value, a plain one, one with a line break.
LineRows ==
  RowsOver({NullValue, StringValue(<<"a">>), StringValue(<<"\r", "\n">>)}, MaxFields)
    \ {<<>>}

CsvTables == UNION {[1..n -> LineRows] : n \in 1..MaxRows}

\* A call of the codec with one row, or with the rows of a file.
InitCsv ==
  /\ f_in \in {<<r>> : r \in CsvRows} \cup CsvTables
  /\ f_ret = <<>>
  /\ InitDB /\ GroupIdle /\ ExportIdle /\ PageIdle /\ ImportIdle

CallEscapeCSV ==
  /\ Len(f_in) = 1 /\ Len(f_in[1]) = 1
  /\ Return("escapeCSV", escapeCSV(f_in[1][1]))

CallToCSVRow ==
  /\ Len(f_in) = 1
  /\ Return("toCSVRow", toCSVRow(f_in[1]))

CallGenerateCSV == Return("generateCSV", generateCSV(f_in))

NextCsv == CallEscapeCSV \/ CallToCSVRow \/ CallGenerateCSV

SpecCsv == InitCsv /\ [][NextCsv]_vars

\* ------------------------------------------------- the columns of the rows

\* EBAY_FILE_EXCHANGE_HEADERS of each version of the library.
EBAY_FILE_EXCHANGE_HEADERS(version) ==
  CASE version = 1 ->
    <<
      "*Action(SiteID=US|Country=US|Currency=USD|Version=1193|CC=UTF-8)",
      "CustomLabel", "*Category", "StoreCategory", "*Title", "Subtitle",
      "Relationship", "RelationshipDetails", "ScheduleTime", "*ConditionID",
      "CD:Professional Grader - (ID: 27501)", "CD:Grade - (ID: 27502)",
      "CDA:Certification Number - (ID: 27503)",
      "CD:Card Condition - (ID: 40001)", "*C:Sport", "C:Player/Athlete",
      "C:Season", "C:Year Manufactured", "C:Manufacturer",
      "C:Parallel/Variety", "C:Features", "C:Set", "C:Team", "C:League",
      "C:Autographed", "C:Card Name", "C:Card Number", "C:Type", "C:Graded",
      "PicURL", "GalleryType", "VideoID", "*Description", "*Format",
      "*Duration", "*StartPrice", "BuyItNowPrice", "BestOfferEnabled",
      "BestOfferAutoAcceptPrice", "MinimumBestOfferPrice", "*Quantity",
      "ImmediatePayRequired", "*Location", "ShippingType",
      "ShippingService-1:Option", "ShippingService-1:Cost",
      "ShippingService-2:Option", "ShippingService-2:Cost",
      "*DispatchTimeMax", "PromotionalShippingDiscount",
      "ShippingDiscountProfileID", "*ReturnsAcceptedOption",
      "ReturnsWithinOption", "RefundOption", "ShippingCostPaidByOption",
      "AdditionalDetails">>
    [] version = 2 ->
    <<
      "*Action(SiteID=US|Country=US|Currency=USD|Version=1193|CC=UTF-8)",
      "CustomLabel", "*Category", "StoreCategory", "*Title", "Subtitle",
      "Relationship", "*ConditionID", "*C:Graded", "*C:Sport",
      "*C:Player/Athlete", "*C:Parallel/Variety", "*C:Manufacturer",
      "C:Season", "*C:Features", "*C:Set", "CD:Grade - (ID: 27502)",
      "*C:League", "CD:Professional Grader - (ID: 27501)", "*C:Team",
      "*C:Autographed", "CD:Card Condition - (ID: 40001)", "*C:Card Name",
      "*C:Card Number", "CDA:Certification Number - (ID: 27503)", "*C:Type",
      "C:Year Manufactured", "PicURL", "GalleryType", "*Description",
      "*Format", "*Duration", "*StartPrice", "BuyItNowPrice", "*Quantity",
      "PayPalAccepted", "PayPalEmailAddress", "ImmediatePayRequired",
      "PaymentInstructions", "*Location", "PostalCode", "ShippingType",
      "ShippingService-1:Option", "ShippingService-1:FreeShipping",
      "ShippingService-1:Cost", "ShippingService-1:AdditionalCost",
      "ShippingService-2:Option", "ShippingService-2:Cost",
      "*DispatchTimeMax", "PromotionalShippingDiscount",
      "ShippingDiscountProfileID", "*ReturnsAcceptedOption",
      "ReturnsWithinOption", "RefundOption", "ShippingCostPaidByOption",
      "AdditionalDetails", "ShippingProfileName", "ReturnProfileName",
      "PaymentProfileName", "ScheduleTime">>
    [] version = 3 ->
    <<
      "*Action(SiteID=US|Country=US|Currency=USD|Version=1193)", "*Category",
      "StoreCategory", "*Title", "*ConditionID", "C:Card Condition",
      "C:Professional Grader", "C:Certification Number", "C:Grade", "PicURL",
      "*Description", "*Format", "*Duration", "*StartPrice", "BuyItNowPrice",
      "*Quantity", "PayPalAccepted", "PayPalEmailAddress",
      "ImmediatePayRequired", "*Location", "PostalCode", "ShippingType",
      "ShippingService-1:Option", "ShippingService-1:Cost",
      "ShippingService-1:AdditionalCost", "*DispatchTimeMax",
      "ReturnsAcceptedOption", "ReturnsWithinOption", "RefundOption",
      "ShippingCostPaidByOption", "ScheduleTime", "CustomLabel">>
    [] version = 4 ->
    <<
      "*Action(SiteID=US|Country=US|Currency=USD|Version=1193|CC=UTF-8)",
      "CustomLabel", "*Category", "StoreCategory", "*Title", "ScheduleTime",
      "*ConditionID", "CD:Professional Grader - (ID: 27501)",
      "CD:Grade - (ID: 27502)", "CDA:Certification Number - (ID: 27503)",
      "CD:Card Condition - (ID: 40001)", "*C:Sport", "C:Player/Athlete",
      "C:Year Manufactured", "C:Manufacturer", "C:Parallel/Variety", "C:Set",
      "C:Team", "C:Card Name", "C:Card Number", "C:Graded", "PicURL",
      "*Description", "*Format", "*Duration", "*StartPrice", "BuyItNowPrice",
      "*Quantity", "ImmediatePayRequired", "*Location", "ShippingType",
      "ShippingService-1:Option", "ShippingService-1:Cost",
      "*DispatchTimeMax", "*ReturnsAcceptedOption", "ReturnsWithinOption",
      "RefundOption", "ShippingCostPaidByOption">>

RAW_CSV_HEADERS ==
  <<
    "Images", "Title", "Status", "Listings", "Sale Price", "Category",
    "Year", "Brand", "Set", "Name", "Card #", "Subset/Parallel",
    "Attributes", "Team", "Variation", "Graded", "Grader", "Condition",
    "Cert No.">>

\* The expressions of the array literal "row" of generateEbayCSV, in the
\* order they are written.
EbayRowExpressions(version) ==
  CASE version = 1 ->
    <<
      "'Add'", "customLabel", "profile.ebayCategory",
      "profile.storeCategory || ''", "title.slice(0, 80)", "''", "''", "''",
      "scheduleTime", "conditionId", "grader", "grade", "certNo",
      "cardCondition", "sport", "card.name || ''", "card.year || ''",
      "card.year || ''", "card.brand || ''", "card.subsetParallel || ''",
      "card.subsetParallel || ''", "card.setName || ''", "card.team || ''",
      "''", "'No'", "card.name || ''", "card.cardNumber || ''",
      "'Sports Trading Card'", "isGraded ? 'Yes' : 'No'", "imageUrls", "''",
      "''", "description", "ebayFormat", "profile.durationDays",
      "startPrice", "buyItNowPrice", "''", "''", "''", "'1'",
      "profile.immediatePayment ? '1' : '0'", "location", "shippingType",
      "EBAY_SHIPPING_SERVICES[profile.shippingService] || 'USPSParcel'",
      "shippingCost", "''", "''", "profile.handlingTimeDays", "''", "''",
      "returnsOption", "returnWindow",
      "profile.refundMethod === 'Money Back' ? 'MoneyBack' : 'MoneyBackOrReplacement'",
      "profile.shippingCostPaidBy", "''">>
    [] version = 2 ->
    <<
      "'Add'", "customLabel", "profile.ebayCategory",
      "profile.storeCategory || '0'", "title.slice(0, 80)", "''", "''",
      "conditionId", "isGraded ? 'Yes' : 'No'", "sport", "card.name || ''",
      "card.subsetParallel || ''", "card.brand || ''", "card.year || ''",
      "features", "card.setName || ''", "grade", "'MLB'", "grader",
      "card.team || ''", "'No'", "cardCondition", "card.name || ''",
      "card.cardNumber || ''", "certNo", "'Sports Trading Card'",
      "card.year || ''", "imageUrls", "''", "description", "ebayFormat",
      "profile.durationDays", "startPrice", "buyItNowPrice", "'1'", "''",
      "''", "profile.immediatePayment ? '1' : '0'", "''", "location",
      "profile.itemLocationZip || ''", "shippingType",
      "profile.shippingService", "freeShippingFlag", "shippingCost",
      "profile.eachAdditionalItemCost || ''", "''", "''",
      "profile.handlingTimeDays", "''", "''", "returnsOption",
      "returnWindow",
      "profile.refundMethod === 'Money Back' ? 'MoneyBack' : 'MoneyBackOrReplacement'",
      "profile.shippingCostPaidBy", "''", "''", "''", "''", "scheduleTime">>
    [] version = 3 ->
    <<
      "'Add'", "profile.ebayCategory", "profile.storeCategory",
      "title.slice(0, 80)", "conditionId", "cardCondition", "grader",
      "certNo", "grade", "imageUrls", "description", "ebayFormat",
      "profile.durationDays", "startPrice", "buyItNowPrice", "'1'", "'1'",
      "''", "profile.immediatePayment ? '1' : '0'", "location",
      "profile.itemLocationZip || ''", "shippingType",
      "profile.shippingService", "shippingCost",
      "profile.eachAdditionalItemCost", "profile.handlingTimeDays",
      "returnsOption", "returnWindow",
      "profile.refundMethod === 'Money Back' ? 'MoneyBack' : 'MoneyBackOrExchange'",
      "profile.shippingCostPaidBy", "scheduleTime", "customLabel">>
    [] version = 4 ->
    <<
      "'Add'", "customLabel", "profile.ebayCategory",
      "profile.storeCategory", "title.slice(0, 80)", "scheduleTime",
      "conditionId", "grader", "grade", "certNo", "cardCondition", "sport",
      "card.name || ''", "card.year || ''", "card.brand || ''",
      "card.subsetParallel || ''", "card.setName || ''", "card.team || ''",
      "card.name || ''", "card.cardNumber || ''", "isGraded ? 'Yes' : 'No'",
      "imageUrls", "description", "ebayFormat", "profile.durationDays",
      "startPrice", "buyItNowPrice", "'1'",
      "profile.immediatePayment ? '1' : '0'", "location", "shippingType",
      "profile.shippingService", "shippingCost", "profile.handlingTimeDays",
      "returnsOption", "returnWindow",
      "profile.refundMethod === 'Money Back' ? 'MoneyBack' : 'MoneyBackOrExchange'",
      "profile.shippingCostPaidBy">>

\* The expressions of the array given to toCSVRow by generateRawCSV.
RawRowExpressions ==
  <<
    "imagePaths", "generateTitle(card)", "card.status", "card.listings",
    "card.salePrice", "card.category", "card.year", "card.brand",
    "card.setName", "card.name", "card.cardNumber", "card.subsetParallel",
    "card.attributes", "card.team", "card.variation",
    "card.graded ? 'Yes' : 'No'", "card.grader", "card.condition",
    "card.certNo">>

\* field || '' of a text field
OrEmpty(t) == IF Falsy(t) THEN <<>> ELSE t

\* The cell an expression of a row evaluates to: the part of the card or of
\* the profile it is computed from and, where the value is modelled, the value.
Cell(version, expr, card, profile, i) ==
  CASE expr = "'Add'" -> [of |-> "constant", value |-> "Add"]
    [] expr = "customLabel" -> [of |-> "customLabel"]
    [] expr = "profile.ebayCategory" -> [of |-> "profile.ebayCategory"]
    [] expr = "profile.storeCategory || ''" -> [of |-> "profile.storeCategory"]
    [] expr = "title.slice(0, 80)" ->
         [of |-> "title", value |-> TitleCell(card)]
    [] expr = "''" -> [of |-> "constant", value |-> ""]
    [] expr = "scheduleTime" ->
         [of |-> "scheduleTime", value |-> calculateScheduleTime(version, profile, i)]
    [] expr = "conditionId" ->
         [of |-> "conditionId", value |-> conditionId(card)]
    [] expr = "grader" -> [of |-> "grader", value |-> grader(card)]
    [] expr = "grade" -> [of |-> "grade", value |-> grade(card)]
    [] expr = "certNo" -> [of |-> "certNo", value |-> certNo(card)]
    [] expr = "cardCondition" ->
         [of |-> "cardCondition", value |-> cardCondition(version, card)]
    [] expr = "sport" ->
         [of |-> "card.category", value |-> OrElse(card.category, "Baseball")]
    [] expr = "card.name || ''" ->
         [of |-> "card.name", value |-> OrEmpty(card.name)]
    [] expr = "card.year || ''" ->
         [of |-> "card.year", value |-> IF card.year = <<0>> THEN <<>> ELSE card.year]
    [] expr = "card.brand || ''" ->
         [of |-> "card.brand", value |-> OrEmpty(card.brand)]
    [] expr = "card.subsetParallel || ''" ->
         [of |-> "card.subsetParallel", value |-> OrEmpty(card.subsetParallel)]
    [] expr = "card.setName || ''" ->
         [of |-> "card.setName", value |-> OrEmpty(card.setName)]
    [] expr = "card.team || ''" -> [of |-> "card.team"]
    [] expr = "'No'" -> [of |-> "constant", value |-> "No"]
    [] expr = "card.cardNumber || ''" ->
         [of |-> "card.cardNumber", value |-> OrEmpty(card.cardNumber)]
    [] expr = "'Sports Trading Card'" ->
         [of |-> "constant", value |-> "Sports Trading Card"]
    [] expr = "isGraded ? 'Yes' : 'No'" ->
         [of |-> "isGraded", value |-> IF isGraded(card) THEN "Yes" ELSE "No"]
    [] expr = "imageUrls" -> [of |-> "imageUrls"]
    [] expr = "description" -> [of |-> "description"]
    [] expr = "ebayFormat" -> [of |-> "ebayFormat"]
    [] expr = "profile.durationDays" -> [of |-> "profile.durationDays"]
    [] expr = "startPrice" -> [of |-> "startPrice"]
    [] expr = "buyItNowPrice" -> [of |-> "buyItNowPrice"]
    [] expr = "'1'" -> [of |-> "constant", value |-> "1"]
    [] expr = "profile.immediatePayment ? '1' : '0'" ->
         [of |-> "profile.immediatePayment"]
    [] expr = "location" -> [of |-> "location"]
    [] expr = "shippingType" -> [of |-> "shippingType"]
    [] expr = "EBAY_SHIPPING_SERVICES[profile.shippingService] || 'USPSParcel'" ->
         [of |-> "profile.shippingService"]
    [] expr = "shippingCost" -> [of |-> "shippingCost"]
    [] expr = "profile.handlingTimeDays" -> [of |-> "profile.handlingTimeDays"]
    [] expr = "returnsOption" -> [of |-> "returnsOption"]
    [] expr = "returnWindow" -> [of |-> "returnWindow"]
    [] expr = "profile.refundMethod === 'Money Back' ? 'MoneyBack' : 'MoneyBackOrReplacement'" ->
         [of |-> "profile.refundMethod"]
    [] expr = "profile.shippingCostPaidBy" ->
         [of |-> "profile.shippingCostPaidBy"]
    [] expr = "profile.storeCategory || '0'" -> [of |-> "profile.storeCategory"]
    [] expr = "features" ->
         [of |-> "card.subsetParallel", value |-> OrEmpty(card.subsetParallel)]
    [] expr = "'MLB'" -> [of |-> "constant", value |-> "MLB"]
    [] expr = "profile.itemLocationZip || ''" ->
         [of |-> "profile.itemLocationZip"]
    [] expr = "profile.shippingService" -> [of |-> "profile.shippingService"]
    [] expr = "freeShippingFlag" -> [of |-> "freeShippingFlag"]
    [] expr = "profile.eachAdditionalItemCost || ''" ->
         [of |-> "profile.eachAdditionalItemCost"]
    [] expr = "profile.storeCategory" -> [of |-> "profile.storeCategory"]
    [] expr = "profile.eachAdditionalItemCost" ->
         [of |-> "profile.eachAdditionalItemCost"]
    [] expr = "profile.refundMethod === 'Money Back' ? 'MoneyBack' : 'MoneyBackOrExchange'" ->
         [of |-> "profile.refundMethod"]
    [] expr = "imagePaths" -> [of |-> "imagePaths"]
    [] expr = "generateTitle(card)" ->
         [of |-> "title", value |-> generateTitle(card)]
    [] expr = "card.status" -> [of |-> "card.status"]
    [] expr = "card.listings" -> [of |-> "card.listings"]
    [] expr = "card.salePrice" ->
         [of |-> "card.salePrice", value |-> card.salePrice]
    [] expr = "card.category" ->
         [of |-> "card.category", value |-> card.category]
    [] expr = "card.year" -> [of |-> "card.year", value |-> card.year]
    [] expr = "card.brand" -> [of |-> "card.brand", value |-> card.brand]
    [] expr = "card.setName" -> [of |-> "card.setName", value |-> card.setName]
    [] expr = "card.name" -> [of |-> "card.name", value |-> card.name]
    [] expr = "card.cardNumber" ->
         [of |-> "card.cardNumber", value |-> card.cardNumber]
    [] expr = "card.subsetParallel" ->
         [of |-> "card.subsetParallel", value |-> card.subsetParallel]
    [] expr = "card.attributes" -> [of |-> "card.attributes"]
    [] expr = "card.team" -> [of |-> "card.team"]
    [] expr = "card.variation" -> [of |-> "card.variation"]
    [] expr = "card.graded ? 'Yes' : 'No'" ->
         [of |-> "card.graded", value |-> IF card.graded THEN "Yes" ELSE "No"]
    [] expr = "card.grader" -> [of |-> "card.grader", value |-> card.grader]
    [] expr = "card.condition" ->
         [of |-> "card.condition", value |-> card.condition]
    [] expr = "card.certNo" -> [of |-> "card.certNo", value |-> card.certNo]

\* The variant whose second and third values change places.
EbayRowValuesSwapped(version, card, profile, i) ==
  LET exprs == EbayRowExpressions(version)
      from(p) == IF p = 2 THEN 3 ELSE IF p = 3 THEN 2 ELSE p
  IN [p \in 1..Len(exprs) |-> Cell(version, exprs[from(p)], card, profile, i)]

\* const row = [ ... ] of generateEbayCSV: the values of one data row.
EbayRowValues(version, card, profile, i) ==
  LET exprs == EbayRowExpressions(version)
  IN [p \in 1..Len(exprs) |-> Cell(version, exprs[p], card, profile, i)]

\* toCSVRow([ ... ]) of generateRawCSV: the values of one data row.
RawRowValues(card) ==
  [p \in 1..Len(RawRowExpressions) |->
     Cell(1, RawRowExpressions[p], card, DEFAULT_EXPORT_PROFILE, 0)]

\* The card at position index of a lot, exported under a profile by one
\* version of the library.
InitRow ==
  /\ f_in \in [version : Versions, card : ExportCardPool,
               profile : SavedProfiles \cup {DEFAULT_EXPORT_PROFILE},
               index : 0..MaxIndex]
  /\ f_ret = <<>>
  /\ InitDB /\ GroupIdle /\ ExportIdle /\ PageIdle /\ ImportIdle

CallEbayRowValues ==
  Return("generateEbayCSV row",
         EbayRowValues(f_in.version, f_in.card, f_in.profile, f_in.index))

CallRawRowValues == Return("generateRawCSV row", RawRowValues(f_in.card))

NextRow == CallEbayRowValues \/ CallRawRowValues

SpecRow == InitRow /\ [][NextRow]_vars


\* ------------------------------------------------- the rows of the files

\* const EBAY_INFO_ROW (versions 1, 2 and 4)
EBAY_INFO_ROW == "Info,Version=1.0.0,Template=fx_category_template_EBAY_US"

\* The array "rows" of generateEbayCSV before it is joined: the info row
\* (version 3 pushes none), the header row, one data row per card in the
\* order of the argument.
EbayFileRows(version, cards, profile) ==
  (IF version = 3 THEN <<>> ELSE <<[kind |-> "info", text |-> EBAY_INFO_ROW]>>)
    \o <<[kind |-> "header", values |-> EBAY_FILE_EXCHANGE_HEADERS(version)]>>
    \o [k \in 1..Len(cards) |->
          [kind |-> "data", values |-> EbayRowValues(version, cards[k], profile, k - 1)]]

\* The array "rows" of generateRawCSV before it is joined.
RawFileRows(cards) ==
  <<[kind |-> "header", values |-> RAW_CSV_HEADERS]>>
    \o [k \in 1..Len(cards) |-> [kind |-> "data", values |-> RawRowValues(cards[k])]]

\* The cards of the lots whose files are built: with a year, the legacy flag
\* unset.
FileCardPool == {c \in ExportCardPool : c.year # <<>> /\ ~c.graded}

\* The cards of a lot in the order the route reads them (sortOrder
\* ascending), a profile, and the version of the library.
InitFile ==
  /\ \E n \in 0..MaxExportCards :
       f_in \in [version : Versions, cards : [1..n -> FileCardPool],
                 profile : {DEFAULT_EXPORT_PROFILE,
                            [DEFAULT_EXPORT_PROFILE EXCEPT !.scheduleDate = <<1>>,
                                                           !.scheduleTime = <<60>>]}]
  /\ f_ret = <<>>
  /\ InitDB /\ GroupIdle /\ ExportIdle /\ PageIdle /\ ImportIdle

CallGenerateEbayCSV ==
  Return("generateEbayCSV", EbayFileRows(f_in.version, f_in.cards, f_in.profile))

CallGenerateRawCSV == Return("generateRawCSV", RawFileRows(f_in.cards))

NextFile == CallGenerateEbayCSV \/ CallGenerateRawCSV

SpecFile == InitFile /\ [][NextFile]_vars


\* ------------------------------------------------------ the PicURL of a row

\* The largest number of images of a card.
MaxPicImages == 2

\* encodeURIComponent of one character: letters, digits and - _ . ! ~ * ' ( )
\* stay, every other character becomes %XX.
EncodeChar(c) ==
  CASE c = "/" -> <<"%", "2", "F">>
    [] c = " " -> <<"%", "2", "0">>
    [] c = "|" -> <<"%", "7", "C">>
    [] c = "%" -> <<"%", "2", "5">>
    [] c = ":" -> <<"%", "3", "A">>
    [] OTHER -> <<c>>

RECURSIVE encodeURIComponent(_)
encodeURIComponent(text) ==
  IF text = <<>> THEN <<>> ELSE EncodeChar(Head(text)) \o encodeURIComponent(Tail(text))

\* images.sort((a, b) => a.sortOrder - b.sortOrder): a stable sort.
RECURSIVE InsertBySortOrder(_, _)
InsertBySortOrder(s, x) ==
  IF s = <<>> THEN <<x>>
  ELSE IF Head(s).sortOrder <= x.sortOrder
    THEN <<Head(s)>> \o InsertBySortOrder(Tail(s), x)
  ELSE <<x>> \o s

RECURSIVE SortBySortOrderFrom(_, _)
SortBySortOrderFrom(images, acc) ==
  IF images = <<>> THEN acc
  ELSE SortBySortOrderFrom(Tail(images), InsertBySortOrder(acc, Head(images)))

SortBySortOrder(images) == SortBySortOrderFrom(images, <<>>)

\* `${imageBaseUrl}/api/images/${encodeURIComponent(img.originalPath)}`, or
\* img.originalPath when imageBaseUrl is undefined or ''.
ImageUrl(img, imageBaseUrl) ==
  IF imageBaseUrl # <<>>
    THEN imageBaseUrl \o <<"/", "a", "p", "i", "/", "i", "m", "a", "g", "e", "s", "/">>
           \o encodeURIComponent(img.originalPath)
    ELSE img.originalPath

\* The variant that does not sort.
imageUrlsUnsorted(images, imageBaseUrl) ==
  Join([k \in 1..Len(images) |-> ImageUrl(images[k], imageBaseUrl)], <<"|">>)

\* const imageUrls = card.images.sort(...).map(...).join('|')
imageUrls(images, imageBaseUrl) ==
  LET sorted == SortBySortOrder(images)
  IN Join([k \in 1..Len(sorted) |-> ImageUrl(sorted[k], imageBaseUrl)], <<"|">>)

\* Storage paths `uploads/${lotId}/${uniqueFilename}` (shortened).
PicPaths == { <<"u", "/", "a", "_", "1", ".", "j">>, <<"u", "/", "b", "_", "1", ".", "j">>,
              <<"u", "/", "a", "_", "2", ".", "j">> }

\* The images of a card as the query returns them, in any order; two images
\* of a card may hold the same sortOrder.
PicImages ==
  UNION {{[k \in 1..n |-> [originalPath |-> ps[k], sortOrder |-> so[k]]]
            : ps \in InjSeqs(PicPaths, n), so \in [1..n -> 0..MaxPicImages]}
         : n \in 0..MaxPicImages}

\* Base URLs: none, the origin of the request.
PicBases == { <<>>, <<"h", ":", "/", "/", "x">> }

InitPic ==
  /\ f_in \in [images : PicImages, imageBaseUrl : PicBases]
  /\ f_ret = <<>>
  /\ InitDB /\ GroupIdle /\ ExportIdle /\ PageIdle /\ ImportIdle

CallImageUrls == Return("imageUrls", imageUrls(f_in.images, f_in.imageBaseUrl))

NextPic == CallImageUrls

SpecPic == InitPic /\ [][NextPic]_vars


\* ------------------------------------------------ the download's file name

\* The longest of the short lot names.
MaxNameLen == 2

\* slice(0, 30)
NameLimit == 30

\* [a-zA-Z0-9]
AlphaNumeric ==
  Digits \cup
  {"a", "b", "c", "d", "e", "f", "g", "h", "i", "j", "k", "l", "m", "n", "o", "p", "q",
   "r", "s", "t", "u", "v", "w", "x", "y", "z", "A", "B", "C", "D", "E", "F", "G", "H",
   "I", "J", "K", "L", "M", "N", "O", "P", "Q", "R", "S", "T", "U", "V", "W", "X", "Y",
   "Z"}

\* lot.name.replace(/[^a-zA-Z0-9]/g, '_').slice(0, 30)
safeName(name) ==
  Slice([k \in 1..Len(name) |-> IF name[k] \in AlphaNumeric THEN name[k] ELSE "_"],
        0, NameLimit)

\* Two digits of a number below 100.
Pad2(n) == <<DigitChar(n \div 10), DigitChar(n % 10)>>

\* format(new Date(), 'MM-dd-yy')
FormatDate(date) ==
  Pad2(date.month) \o <<"-">> \o Pad2(date.day) \o <<"-">> \o Pad2(date.year % 100)

\* `${safeName}_${lot.cardItems.length}_items_raw_export_${date}.csv`
RawFilename(name, count, date) ==
  safeName(name) \o <<"_">> \o NumberText(count)
    \o <<"_", "i", "t", "e", "m", "s", "_", "r", "a", "w", "_",
         "e", "x", "p", "o", "r", "t", "_">>
    \o FormatDate(date) \o <<".", "c", "s", "v">>

\* `${safeName}_${lot.cardItems.length}_items_ebay_export_${date}.csv`
EbayFilename(name, count, date) ==
  safeName(name) \o <<"_">> \o NumberText(count)
    \o <<"_", "i", "t", "e", "m", "s", "_", "e", "b", "a", "y", "_",
         "e", "x", "p", "o", "r", "t", "_">>
    \o FormatDate(date) \o <<".", "c", "s", "v">>

NameAlphabet == {"a", "Z", "9", "_", " ", "-"}

RECURSIVE NamesUpTo(_)
NamesUpTo(n) ==
  IF n = 0 THEN {<<>>}
  ELSE NamesUpTo(n - 1)
         \cup {Append(t, c) : t \in {u \in NamesUpTo(n - 1) : Len(u) = n - 1},
                               c \in NameAlphabet}

\* Lot names: the short ones, and names of 31 characters.
LotNames ==
  (NamesUpTo(MaxNameLen) \ {<<>>})
    \cup {[k \in 1..(NameLimit + 1) |-> "a"],
          [k \in 1..(NameLimit + 1) |-> IF k = 3 THEN " " ELSE "a"]}

\* The lot of an export request and the day of the request.
InitFilename ==
  /\ f_in \in [name : LotNames, count : 0..MaxExportCards,
               date : {[year |-> 2026, month |-> 1, day |-> 5],
                       [year |-> 2025, month |-> 11, day |-> 30]}]
  /\ f_ret = <<>>
  /\ InitDB /\ GroupIdle /\ ExportIdle /\ PageIdle /\ ImportIdle

ExportRawFilename ==
  Return("raw filename", RawFilename(f_in.name, f_in.count, f_in.date))

ExportEbayFilename ==
  Return("ebay filename", EbayFilename(f_in.name, f_in.count, f_in.date))

NextFilename == ExportRawFilename \/ ExportEbayFilename

SpecFilename == InitFilename /\ [][NextFilename]_vars


\* ------------------------------------------------------------ the lot page

MaxEdits == 3
DEBOUNCE_MS == 500

PageCards == {"c1", "c2"}
PageFields == {"title", "year"}

\* Time advances in steps of half the debounce delay.
TickMs == DEBOUNCE_MS \div 2

\* { ...map, [key]: value } and new Map(prev).set(key, value)
Put(map, key, value) ==
  [x \in DOMAIN map \cup {key} |-> IF x = key THEN value ELSE map[x]]

Without(map, key) == [x \in DOMAIN map \ {key} |-> map[x]]

RemoveAt(s, i) == [k \in 1..(Len(s) - 1) |-> IF k < i THEN s[k] ELSE s[k + 1]]

\* prisma.cardItem.update({ where: { id }, data }) for every update
ApplyUpdates(cards, updates) ==
  [c \in DOMAIN cards |->
     IF c \in DOMAIN updates
       THEN [f \in DOMAIN cards[c] |->
               IF f \in DOMAIN updates[c] THEN updates[c][f] ELSE cards[c][f]]
       ELSE cards[c]]

\* The cells an updates array carries, each with its value.
UpdateCells(updates) ==
  UNION {{<<c, f, updates[c][f]>> : f \in DOMAIN updates[c]} : c \in DOMAIN updates}

\* The page after fetchLot: the grid shows what the database holds, nothing
\* is pending and no timer is armed.
InitPage ==
  /\ lot = [c \in PageCards |-> [f \in PageFields |-> 0]]
  /\ serverCards = [c \in PageCards |-> [f \in PageFields |-> 0]]
  /\ pendingChanges = <<>> /\ saveTimeout = 0 /\ closureTimeout = 0
  /\ timers = <<>> /\ inFlight = <<>> /\ patched = {}
  /\ lastEdit = [c \in PageCards |-> [f \in PageFields |-> 0]]
  /\ sinceEdit = 0 /\ edits = 0

\* handleCellChange(cardId, field, value); the user's values are numbered in
\* the order they are entered. The callback holds the saveTimeout of the
\* render that created it.
handleCellChange(cardId, field) ==
  LET value == edits + 1
      existing == IF cardId \in DOMAIN pendingChanges
                    THEN pendingChanges[cardId] ELSE <<>>
      cleared == IF closureTimeout # 0 /\ closureTimeout \in DOMAIN timers
                   THEN Without(timers, closureTimeout) ELSE timers
  IN /\ edits < MaxEdits
     /\ lot' = [lot EXCEPT ![cardId][field] = value]
     /\ pendingChanges' = Put(pendingChanges, cardId, Put(existing, field, value))
     /\ timers' = Put(cleared, value, DEBOUNCE_MS)
     /\ saveTimeout' = value
     /\ lastEdit' = [lastEdit EXCEPT ![cardId][field] = value]
     /\ sinceEdit' = 0
     /\ edits' = value
     /\ UNCHANGED <<closureTimeout, inFlight, serverCards, patched>>
     /\ UNCHANGED <<dbvars, gvars, xvars, fvars, ivars>>

\* The page renders again: handleCellChange is created anew over the current
\* saveTimeout (its useCallback depends on it).
Render ==
  /\ closureTimeout # saveTimeout
  /\ closureTimeout' = saveTimeout
  /\ UNCHANGED <<lot, pendingChanges, saveTimeout, timers, inFlight, serverCards,
                 patched, lastEdit, sinceEdit, edits>>
  /\ UNCHANGED <<dbvars, gvars, xvars, fvars, ivars>>

\* Time passes; the page has rendered and no timer is overdue.
Tick ==
  /\ closureTimeout = saveTimeout
  /\ DOMAIN timers # {}
  /\ \A t \in DOMAIN timers : timers[t] > 0
  /\ timers' = [t \in DOMAIN timers |-> timers[t] - TickMs]
  /\ sinceEdit' = IF sinceEdit < DEBOUNCE_MS THEN sinceEdit + TickMs ELSE sinceEdit
  /\ UNCHANGED <<lot, pendingChanges, saveTimeout, closureTimeout, inFlight,
                 serverCards, patched, lastEdit, edits>>
  /\ UNCHANGED <<dbvars, gvars, xvars, fvars, ivars>>

\* The timer's callback: setPendingChanges((current) => { saveChanges(current);
\* return new Map(); }), saveChanges returning at once on an empty map and
\* sending the PATCH otherwise.
TimerFire(t) ==
  /\ t \in DOMAIN timers /\ timers[t] = 0
  /\ timers' = Without(timers, t)
  /\ pendingChanges' = <<>>
  /\ IF DOMAIN pendingChanges = {}
       THEN UNCHANGED <<inFlight, patched>>
       ELSE /\ inFlight' = Append(inFlight, [kind |-> "saveChanges",
                                              updates |-> pendingChanges,
                                              stage |-> "sent", data |-> <<>>])
            /\ patched' = patched \cup UpdateCells(pendingChanges)
  /\ UNCHANGED <<lot, saveTimeout, closureTimeout, serverCards, lastEdit,
                 sinceEdit, edits>>
  /\ UNCHANGED <<dbvars, gvars, xvars, fvars, ivars>>

\* handleBulkEdit(field, value): every card of the grid, sent at once.
handleBulkEdit(field) ==
  LET value == edits + 1
  IN /\ edits < MaxEdits
     /\ lot' = [c \in DOMAIN lot |-> [lot[c] EXCEPT ![field] = value]]
     /\ inFlight' = Append(inFlight, [kind |-> "handleBulkEdit",
                                      updates |-> [c \in DOMAIN lot |-> Put(<<>>, field, value)],
                                      stage |-> "sent", data |-> <<>>])
     /\ edits' = value
     /\ UNCHANGED <<pendingChanges, saveTimeout, closureTimeout, timers,
                    serverCards, patched, lastEdit, sinceEdit>>
     /\ UNCHANGED <<dbvars, gvars, xvars, fvars, ivars>>

\* PATCH /api/lots/[lotId]/cards, first half: the updates in one transaction,
\* or an error caught and answered with status 500.
PatchUpdate(i, ok) ==
  /\ i \in 1..Len(inFlight) /\ inFlight[i].stage = "sent"
  /\ IF ok
       THEN /\ serverCards' = ApplyUpdates(serverCards, inFlight[i].updates)
            /\ inFlight' = [inFlight EXCEPT ![i].stage = "updated"]
       ELSE /\ inFlight' = [inFlight EXCEPT ![i].stage = "failed"]
            /\ UNCHANGED serverCards
  /\ UNCHANGED <<lot, pendingChanges, saveTimeout, closureTimeout, timers,
                 patched, lastEdit, sinceEdit, edits>>
  /\ UNCHANGED <<dbvars, gvars, xvars, fvars, ivars>>

\* Second half: findMany of the lot's cards, answered as data.
PatchFetch(i) ==
  /\ i \in 1..Len(inFlight) /\ inFlight[i].stage = "updated"
  /\ inFlight' = [inFlight EXCEPT ![i].stage = "answered", ![i].data = serverCards]
  /\ UNCHANGED <<lot, pendingChanges, saveTimeout, closureTimeout, timers,
                 serverCards, patched, lastEdit, sinceEdit, edits>>
  /\ UNCHANGED <<dbvars, gvars, xvars, fvars, ivars>>

\* The page receives the answer: if (data.success) setLot((prev) => ({ ...prev,
\* cardItems: data.data })); a failure is logged and nothing else.
Receive(i) ==
  /\ i \in 1..Len(inFlight) /\ inFlight[i].stage \in {"answered", "failed"}
  /\ lot' = IF inFlight[i].stage = "answered" THEN inFlight[i].data ELSE lot
  /\ inFlight' = RemoveAt(inFlight, i)
  /\ UNCHANGED <<pendingChanges, saveTimeout, closureTimeout, timers,
                 serverCards, patched, lastEdit, sinceEdit, edits>>
  /\ UNCHANGED <<dbvars, gvars, xvars, fvars, ivars>>

NextPage ==
  \/ \E c \in PageCards : \E f \in PageFields : handleCellChange(c, f)
  \/ Render
  \/ Tick
  \/ \E t \in 1..MaxEdits : TimerFire(t)
  \/ \E f \in PageFields : handleBulkEdit(f)
  \/ \E i \in 1..MaxEdits : \E ok \in BOOLEAN : PatchUpdate(i, ok)
  \/ \E i \in 1..MaxEdits : PatchFetch(i)
  \/ \E i \in 1..MaxEdits : Receive(i)

InitPageLot == InitPage /\ InitDB /\ GroupIdle /\ ExportIdle /\ FnIdle /\ ImportIdle

SpecPage == InitPageLot /\ [][NextPage]_vars

\* The browser's clock advances, the page renders after a state change and a
\* due timer's callback runs; the network and the server owe nothing.
SpecPageFair ==
  /\ InitPageLot /\ [][NextPage]_vars
  /\ WF_vars(Render) /\ WF_vars(Tick)
  /\ \A t \in 1..MaxEdits : WF_vars(TimerFire(t))


\* ---------------------------------------------------------- the import page

\* What the user can drop on the page: image files and one file that is none.
ImportFiles ==
  [name : GroupNames, type : {"image/jpeg"}] \cup {[name |-> <<"c">>, type |-> "text/plain"]}

\* Tertiary difference of two names the base comparison finds equal: the
\* first character that differs in case decides, lower case first.
RECURSIVE CaseCompare(_, _)
CaseCompare(a, b) ==
  IF a = <<>> \/ b = <<>> THEN 0
  ELSE IF Head(a) = Head(b) THEN CaseCompare(Tail(a), Tail(b))
  ELSE IF Head(a) \in {"A", "B", "C"} THEN 1 ELSE -1

\* a.name.localeCompare(b.name, undefined, { numeric: true }): the default
\* sensitivity tells case apart.
localeCompareVariant(a, b) ==
  IF localeCompare(a, b) # 0 THEN localeCompare(a, b) ELSE CaseCompare(a, b)

RECURSIVE InsertFile(_, _)
InsertFile(s, x) ==
  IF s = <<>> THEN <<x>>
  ELSE IF localeCompareVariant(Head(s).name, x.name) <= 0
    THEN <<Head(s)>> \o InsertFile(Tail(s), x)
  ELSE <<x>> \o s

RECURSIVE SortFilesFrom(_, _)
SortFilesFrom(files, acc) ==
  IF files = <<>> THEN acc
  ELSE SortFilesFrom(Tail(files), InsertFile(acc, Head(files)))

\* acceptedFiles.filter((file) => file.type.startsWith('image/')).sort(...)
imageFiles(acceptedFiles) ==
  SortFilesFrom(SelectSeq(acceptedFiles, LAMBDA file : file.type = "image/jpeg"), <<>>)

\* Array.prototype.splice(index, 1) and splice(index, 0, item)
SpliceOut(s, index) == [k \in 1..(Len(s) - 1) |-> IF k <= index THEN s[k] ELSE s[k + 1]]

SpliceIn(s, index, item) ==
  LET at == IF index > Len(s) THEN Len(s) ELSE index
  IN [k \in 1..(Len(s) + 1) |->
        IF k <= at THEN s[k] ELSE IF k = at + 1 THEN item ELSE s[k - 1]]

\* router.push leaves the import page once an upload has succeeded; the lot
\* of this page starts without cards.
OnImportPage == cardItems = {}

\* onDrop(acceptedFiles) of the dropzone
onDrop(acceptedFiles) ==
  LET added == imageFiles(acceptedFiles)
  IN /\ OnImportPage
     /\ Len(filesWithUrls) + Len(added) <= MaxImages
     /\ \A k \in 1..Len(added) : \A j \in 1..Len(filesWithUrls) :
          added[k].name # filesWithUrls[j]
     /\ filesWithUrls' = filesWithUrls \o [k \in 1..Len(added) |-> added[k].name]
     /\ UNCHANGED <<selectedPerCard, dbvars, gvars, xvars, fvars, pvars>>

\* removeFile(index)
removeFile(index) ==
  /\ OnImportPage
  /\ index \in 0..(Len(filesWithUrls) - 1)
  /\ filesWithUrls' = SpliceOut(filesWithUrls, index)
  /\ UNCHANGED <<selectedPerCard, dbvars, gvars, xvars, fvars, pvars>>

\* clearFiles()
clearFiles ==
  /\ OnImportPage
  /\ filesWithUrls # <<>>
  /\ filesWithUrls' = <<>>
  /\ UNCHANGED <<selectedPerCard, dbvars, gvars, xvars, fvars, pvars>>

\* moveImage(fromIndex, direction)
moveImage(fromIndex, direction) ==
  LET toIndex == IF direction = "left" THEN fromIndex - 1 ELSE fromIndex + 1
  IN /\ OnImportPage
     /\ fromIndex \in 0..(Len(filesWithUrls) - 1)
     /\ filesWithUrls' =
          IF toIndex < 0 \/ toIndex >= Len(filesWithUrls) THEN filesWithUrls
          ELSE [filesWithUrls EXCEPT ![fromIndex + 1] = filesWithUrls[toIndex + 1],
                                     ![toIndex + 1] = filesWithUrls[fromIndex + 1]]
     /\ UNCHANGED <<selectedPerCard, dbvars, gvars, xvars, fvars, pvars>>

\* dragHandlers.onDrop(e, dropIndex) with draggedIndexRef.current = dragIndex
dragDrop(dragIndex, dropIndex) ==
  /\ OnImportPage
  /\ dragIndex \in 0..(Len(filesWithUrls) - 1)
  /\ dropIndex \in 0..(Len(filesWithUrls) - 1)
  /\ dragIndex # dropIndex
  /\ filesWithUrls' = SpliceIn(SpliceOut(filesWithUrls, dragIndex), dropIndex,
                               filesWithUrls[dragIndex + 1])
  /\ UNCHANGED <<selectedPerCard, dbvars, gvars, xvars, fvars, pvars>>

\* The select: onChange={(e) => setImagesPerCard(Number(e.target.value))}
setImagesPerCard(value) ==
  /\ OnImportPage
  /\ value \in 1..4
  /\ selectedPerCard' = value
  /\ UNCHANGED <<filesWithUrls, dbvars, gvars, xvars, fvars, pvars>>

\* handleUpload: the files in the page's order and String(imagesPerCard), to
\* POST /api/lots/[lotId]/upload.
handleUpload(stamps, commit) ==
  /\ OnImportPage
  /\ Len(filesWithUrls) # 0
  /\ Upload(filesWithUrls, stamps, <<DigitChar(selectedPerCard)>>, commit)

NextImport ==
  \/ \E n \in 1..MaxImages : \E acceptedFiles \in InjSeqs(ImportFiles, n) :
       onDrop(acceptedFiles)
  \/ \E index \in 0..(MaxImages - 1) : removeFile(index)
  \/ clearFiles
  \/ \E fromIndex \in 0..(MaxImages - 1) : \E direction \in {"left", "right"} :
       moveImage(fromIndex, direction)
  \/ \E dragIndex, dropIndex \in 0..(MaxImages - 1) : dragDrop(dragIndex, dropIndex)
  \/ \E value \in 1..4 : setImagesPerCard(value)
  \/ \E stamps \in ClockSeqs(Len(filesWithUrls)) : \E commit \in BOOLEAN :
       handleUpload(stamps, commit)

InitImport == ImportIdle /\ InitDB /\ GroupIdle /\ ExportIdle /\ FnIdle /\ PageIdle

SpecImport == InitImport /\ [][NextImport]_vars

\* ------------------------------------------------------------------ claims

\* What a reader of the lot's cards sees: each card's position and, for each
\* of its images, the file and the position in the card.
ImageView(img) == [filename |-> img.filename, sortOrder |-> img.sortOrder]

View ==
  {[sortOrder |-> c.sortOrder, images |-> {ImageView(img) : img \in ImagesOf(c.id)}]
     : c \in cardItems}

GroupsView(groups) ==
  {[sortOrder |-> k - 1,
    images |-> {ImageView(groups[k].images[x]) : x \in 1..Len(groups[k].images)}]
     : k \in 1..Len(groups)}

\* C1: regroupLotImages is all-or-nothing: whenever what a reader sees of the
\* lot's cards changes, it changes from the complete old card set to the
\* complete new card set some running regroup has computed with groupImages;
\* the reader never sees an empty or a partial set.
C1_AllOrNothing ==
  [][View' # View => \E p \in Procs : /\ req[p].newGroups # <<>>
                                     /\ View' = GroupsView(req[p].newGroups)]_vars

\* The rows of the lot are exactly the rows of the groups.
LotIs(groups) ==
  /\ {c.id : c \in cardItems} = {groups[k].cardItemId : k \in 1..Len(groups)}
  /\ View = GroupsView(groups)
  /\ Cardinality(cardImages) = ImagesBefore(groups, Len(groups) + 1)

\* C2: regroups of one lot are serialized: when two regroups have both
\* completed, the lot's cards are the cards of the one that ran last, and
\* every image file of the lot is in exactly one card.
C2_Serialized ==
  (\A p \in Procs : req[p].pc = "done")
    => /\ \E p \in Procs : LotIs(req[p].newGroups)
       /\ Cardinality({img.filename : img \in cardImages}) = Cardinality(cardImages)

\* The images of the groups, in order.
RECURSIVE Concat(_)
Concat(groups) ==
  IF groups = <<>> THEN <<>> ELSE Head(groups) \o Concat(Tail(groups))

CeilDiv(a, b) == (a + b - 1) \div b

C4_Rejected ==
  g_n <= 0 => (g_groups = <<>> /\ g_pc # "done")

\* C5: the sortOrder values of the images of every card are exactly
\* 0..k-1, k the number of images of the card.
C5_Contiguous ==
  \A c \in cardItems :
    LET S == ImagesOf(c.id)
    IN /\ {img.sortOrder : img \in S} = 0..(Cardinality(S) - 1)
       /\ \A a, b \in S : a.sortOrder = b.sortOrder => a = b

\* The export answered with a file.
Exported == x_resp # <<>> /\ x_resp[1].status = 200

\* C6: the export endpoint produces a file only if every card of the lot
\* satisfies the readiness predicate.
C6_Revalidates ==
  Exported => \A k \in 1..Len(x_cards) : isCardReadyForExport(x_cards[k])

\* C7: a lot whose profile (saved or default) is 'Scheduled' without a
\* schedule date or time is not exported with empty ScheduleTime fields.
C7_ScheduleRequired ==
  ~(/\ Exported
    /\ LotProfile.scheduleMode = "Scheduled"
    /\ (LotProfile.scheduleDate = <<>> \/ LotProfile.scheduleTime = <<>>)
    /\ \A k \in 1..Len(x_resp[1].rows) : x_resp[1].rows[k].ScheduleTime = <<>>)

\* C8 as stated: a card is graded iff conditionType is the graded sentinel;
\* every row of a graded card has ConditionID 2750 and C:Graded 'Yes', every
\* other row ConditionID 4000 and C:Graded 'No'.
C8_GradedRule ==
  Exported =>
    \A k \in 1..Len(x_cards) :
      LET row == x_resp[1].rows[k]
          sentinel == x_cards[k].conditionType = "Graded: Professionally graded"
      IN /\ row.ConditionID = IF sentinel THEN "2750" ELSE "4000"
         /\ "Graded" \in DOMAIN row
         /\ row.Graded = IF sentinel THEN "Yes" ELSE "No"

\* C8, amended: as above, with C:Graded 'Yes' / 'No' in the rows of the
\* schema versions that have a C:Graded column.
C8_GradedRuleWhereColumn ==
  Exported =>
    \A k \in 1..Len(x_cards) :
      LET row == x_resp[1].rows[k]
          sentinel == x_cards[k].conditionType = "Graded: Professionally graded"
      IN /\ row.ConditionID = IF sentinel THEN "2750" ELSE "4000"
         /\ "Graded" \in DOMAIN row
              => row.Graded = IF sentinel THEN "Yes" ELSE "No"

\* A card whose legacy flag says graded and whose conditionType does not,
\* and one the other way round, exported with a C:Graded column.
C8_Witness ==
  /\ Exported /\ Len(x_cards) = 2
  /\ x_cards[1].graded /\ x_cards[1].conditionType = UngradedType
  /\ ~x_cards[2].graded /\ x_cards[2].conditionType = GradedType
  /\ x_resp[1].rows[1].ConditionID = "4000" /\ x_resp[1].rows[2].ConditionID = "2750"
  /\ "Graded" \in DOMAIN x_resp[1].rows[1]
  /\ x_resp[1].rows[1].Graded = "No" /\ x_resp[1].rows[2].Graded = "Yes"

\* C9: in every data row exactly one field group is active: a graded card's
\* row has an empty Card Condition, an ungraded card's row has empty
\* Professional Grader, Grade and Certification Number, and no row has both.
C9_OneGroup ==
  Exported =>
    \A k \in 1..Len(x_cards) :
      LET row == x_resp[1].rows[k]
          sentinel == x_cards[k].conditionType = "Graded: Professionally graded"
          graderGroup == <<row.ProfessionalGrader, row.Grade, row.CertificationNumber>>
      IN /\ sentinel => row.CardCondition = ""
         /\ ~sentinel => graderGroup = <<"", "", "">>
         /\ ~(graderGroup # <<"", "", "">> /\ row.CardCondition # "")

\* A graded card that stores a condition and an ungraded card that stores a
\* grader, grade and certificate, exported.
C9_Witness ==
  /\ Exported /\ Len(x_cards) = 2
  /\ x_cards[1].conditionType = GradedType /\ x_cards[1].condition = "Excellent"
  /\ x_cards[1].grader = "PSA" /\ x_resp[1].rows[1].ProfessionalGrader = "PSA"
  /\ x_resp[1].rows[1].CardCondition = ""
  /\ x_cards[2].conditionType = UngradedType /\ x_cards[2].grader = "PSA"
  /\ x_cards[2].condition = "Excellent" /\ x_resp[1].rows[2].ProfessionalGrader = ""

\* C10: for an ungraded card the export emits the code the lookup table maps
\* its condition descriptor to, '400010' when the descriptor is unset or not
\* in the table; never the descriptor's text, never an empty Card Condition.
C10_MappedCode ==
  Exported =>
    \A k \in 1..Len(x_cards) :
      LET card == x_cards[k]
          code == IF card.condition = Null THEN Null
                  ELSE EBAY_CARD_CONDITION_CODES(card.condition)
      IN card.conditionType # "Graded: Professionally graded" =>
           x_resp[1].rows[k].CardCondition = IF code = Null THEN "400010" ELSE code

\* C11: a card whose conditionType is neither the graded nor the ungraded
\* sentinel is never exported: no file is produced for a lot that holds one.
C11_NoSilentGuess ==
  Exported =>
    \A k \in 1..Len(x_cards) :
      x_cards[k].conditionType \in
        {"Graded: Professionally graded",
         "Ungraded: Not in original packaging or professionally graded"}

\* The call of fn has returned.
Returned(fn) == f_ret # <<>> /\ f_ret[1].fn = fn

\* A text with at least one character that is not white space.
HasContent(t) == t # <<"<null>">> /\ \E i \in 1..Len(t) : t[i] \notin {" ", "\t"}

\* A selected value that is set and not blank.
Chosen(v) == v \notin {"<null>", "", " "}

\* The mandatory fields the claim lists.
ListedFields(card) ==
  /\ card.images >= 1
  /\ HasContent(card.title) /\ card.salePrice # <<>> /\ card.year # <<>>
  /\ Chosen(card.category) /\ HasContent(card.brand) /\ HasContent(card.setName)
  /\ HasContent(card.name) /\ HasContent(card.cardNumber)
  /\ HasContent(card.subsetParallel)
  /\ IF card.conditionType = "Graded: Professionally graded"
       THEN Chosen(card.grader) /\ Chosen(card.grade)
       ELSE Chosen(card.condition)

\* C12 as stated: a card is ready for export iff it has an image, the listed
\* fields are non-blank, and grader and grade (graded) or the condition
\* descriptor (ungraded) are non-blank.
C12_ReadyIff ==
  Returned("isCardReadyForExport") => (f_ret[1].value <=> ListedFields(f_in))

\* C12, amended: as above, and the condition type itself is non-blank.
C12_ReadyIffWithType ==
  Returned("isCardReadyForExport") =>
    (f_ret[1].value <=> (ListedFields(f_in) /\ Chosen(f_in.conditionType)))

\* A card with every listed field and a condition descriptor, but a blank
\* condition type, is found not ready; so is one whose title is white space.
C12_Witness ==
  /\ Returned("isCardReadyForExport")
  /\ ListedFields(f_in) /\ f_in.conditionType = " "
  /\ f_ret[1].value = FALSE

\* C13: isCardComplete, isCardReadyForExport and the export-time validation
\* give the same answer for every card of an exported lot.
C13_SameAnswer ==
  Exported =>
    \A k \in 1..Len(x_cards) :
      /\ isCardComplete(x_cards[k]) = isCardReadyForExport(x_cards[k])
      /\ isCardReadyForExport(x_cards[k]) = exportValidation(x_cards[k])

\* The title the claim describes: the non-blank values of year, set name,
\* name, '#' + card number and subset/parallel, joined by single spaces.
RECURSIVE SpaceJoined(_)
SpaceJoined(parts) ==
  IF parts = <<>> THEN <<>>
  ELSE IF Len(parts) = 1 THEN parts[1]
  ELSE parts[1] \o <<" ">> \o SpaceJoined(Tail(parts))

DescribedTitle(card) ==
  SpaceJoined(
    (IF card.year \in {<<>>, <<0>>} THEN <<>> ELSE <<NumberText(card.year[1])>>)
    \o (IF HasContent(card.setName) THEN <<card.setName>> ELSE <<>>)
    \o (IF HasContent(card.name) THEN <<card.name>> ELSE <<>>)
    \o (IF HasContent(card.cardNumber) THEN <<<<"#">> \o card.cardNumber>> ELSE <<>>)
    \o (IF HasContent(card.subsetParallel) THEN <<card.subsetParallel>> ELSE <<>>))

\* C15: for the card {year 2024, setName 'Topps', name 'Mike Trout',
\* cardNumber '27', subsetParallel 'Refractor'} without a manual title,
\* generateTitle returns '2024 Topps Mike Trout #27 Refractor': year, set
\* name, name, '#' + card number, subset/parallel, in that order.
C15_TitleOrder ==
  (Returned("generateTitle") /\ f_in = SampleCard) =>
    /\ f_ret[1].value = DescribedTitle(f_in)
    /\ f_ret[1].value =
         <<"2", "0", "2", "4", " ", "T", "o", "p", "p", "s", " ",
           "M", "i", "k", "e", " ", "T", "r", "o", "u", "t", " ",
           "#", "2", "7", " ",
           "R", "e", "f", "r", "a", "c", "t", "o", "r">>

\* C16: generateTitle never returns an empty or white-space-only text: the
\* result is the trimmed manual title when there is one, else a composed
\* title with content or 'Untitled Card'.
C16_NeverEmpty ==
  Returned("generateTitle") =>
    LET v == f_ret[1].value
    IN /\ HasContent(v)
       /\ v[1] \notin {" ", "\t"} /\ v[Len(v)] \notin {" ", "\t"}
       /\ HasContent(f_in.title) =>
            \E a, b \in 0..Len(f_in.title) :
              /\ a + Len(v) + b = Len(f_in.title)
              /\ \A i \in 1..Len(v) : v[i] = f_in.title[a + i]
              /\ \A i \in 1..a : f_in.title[i] \in {" ", "\t"}
              /\ \A i \in 1..b : f_in.title[a + Len(v) + i] \in {" ", "\t"}

\* A card with no title and nothing but blanks to compose one from gets
\* 'Untitled Card'.
C16_Witness ==
  /\ Returned("generateTitle")
  /\ f_in.title = <<" ">> /\ f_in.year = <<0>> /\ f_in.brand = <<" ">>
  /\ f_in.setName = <<" ">> /\ f_in.name = <<"\t">> /\ f_in.cardNumber = <<"<null>">>
  /\ f_in.subsetParallel = <<" ">>
  /\ f_ret[1].value = <<"U", "n", "t", "i", "t", "l", "e", "d", " ", "C", "a", "r", "d">>

\* C17: the Title cell of an export row is the first 80 characters of
\* generateTitle(card), never more than 80, and generateTitle returns the
\* title whole.
C17_TitleCut ==
  /\ Returned("EbayRow") =>
       LET cell == f_ret[1].value.Title
           whole == generateTitle(f_in)
       IN /\ Len(cell) <= 80
          /\ Len(cell) = IF Len(whole) < 80 THEN Len(whole) ELSE 80
          /\ \A i \in 1..Len(cell) : cell[i] = whole[i]
  /\ (Returned("generateTitle") /\ HasContent(f_in.title) /\ Len(f_in.title) > 80)
       => Len(f_ret[1].value) > 80

\* A card with an 81-character manual title: the row carries 80 of them.
C17_Witness ==
  /\ Returned("EbayRow")
  /\ Len(f_in.title) = 81 /\ HasContent(f_in.title)
  /\ Len(f_ret[1].value.Title) = 80

\* C14: in scheduled mode with base time T and interval s, the schedule time
\* at index i is T + i*s with staggering enabled and T with staggering
\* disabled; in immediate mode it is empty at every index.
C14_Stagger ==
  Returned("calculateScheduleTime") =>
    LET pr == f_in.profile
        v == f_ret[1].value
    IN /\ pr.scheduleMode = "Immediate" => v = <<>>
       /\ (pr.scheduleMode = "Scheduled" /\ pr.scheduleDate # <<>>
             /\ pr.scheduleTime # <<>>) =>
            LET T == pr.scheduleDate[1] * 86400 + pr.scheduleTime[1]
            IN /\ Len(v) = 1
               /\ pr.staggerEnabled =>
                    v[1].instant = T + f_in.index * pr.staggerIntervalSeconds
               /\ ~pr.staggerEnabled => v[1].instant = T

\* The third card of a lot staggered by 15 seconds is scheduled at T + 30s.
C14_Witness ==
  /\ Returned("calculateScheduleTime")
  /\ f_in.index = 2 /\ f_in.profile.staggerEnabled
  /\ f_in.profile.staggerIntervalSeconds = 15
  /\ f_in.profile.scheduleDate = <<1>> /\ f_in.profile.scheduleTime = <<60>>
  /\ f_ret[1].value # <<>> /\ f_ret[1].value[1].instant = 86400 + 60 + 30

\* A standard CSV parser (RFC 4180) reading one record: the fields of the
\* text from position i on, where cur is the field being read.
RECURSIVE ParseFrom(_, _, _, _, _)
ParseFrom(text, i, inQuotes, cur, fields) ==
  IF i > Len(text) THEN Append(fields, cur)
  ELSE IF inQuotes
    THEN IF text[i] = "\""
           THEN IF i < Len(text) /\ text[i + 1] = "\""
                  THEN ParseFrom(text, i + 2, TRUE, Append(cur, "\""), fields)
                  ELSE ParseFrom(text, i + 1, FALSE, cur, fields)
           ELSE ParseFrom(text, i + 1, TRUE, Append(cur, text[i]), fields)
    ELSE IF text[i] = "," THEN ParseFrom(text, i + 1, FALSE, <<>>, Append(fields, cur))
    ELSE IF text[i] = "\"" /\ cur = <<>> THEN ParseFrom(text, i + 1, TRUE, cur, fields)
    ELSE IF text[i] \in {"\r", "\n"} THEN Append(fields, cur)
    ELSE ParseFrom(text, i + 1, FALSE, Append(cur, text[i]), fields)

ParseCSVRow(text) == ParseFrom(text, 1, FALSE, <<>>, <<>>)

\* The value is wrapped in double quotes, each quote inside doubled, exactly
\* when it contains a comma, a double quote or a line break.
QuotedExactlyWhenNeeded(str, out) ==
  LET special == \E i \in 1..Len(str) : str[i] \in {",", "\"", "\n", "\r"}
      quotes == Cardinality({i \in 1..Len(str) : str[i] = "\""})
  IN IF special
       THEN /\ Len(out) = Len(str) + quotes + 2
            /\ out[1] = "\"" /\ out[Len(out)] = "\""
            /\ Cardinality({i \in 1..Len(out) : out[i] = "\""}) = 2 * quotes + 2
       ELSE out = str

\* C18: for every field value, escapeCSV quotes exactly when needed, and
\* parsing a row made by toCSVRow gives back the original values, in the
\* original order and number.
C18_RoundTrip ==
  /\ Returned("escapeCSV") =>
       QuotedExactlyWhenNeeded(String(f_in[1][1]), f_ret[1].value)
  /\ Returned("toCSVRow") =>
       LET parsed == ParseCSVRow(f_ret[1].value)
       IN /\ Len(parsed) = Len(f_in[1])
          /\ \A k \in 1..Len(parsed) : parsed[k] = String(f_in[1][k])

\* The text a value is written as: nothing for null and undefined.
WrittenAs(value) == IF value.kind = "null" THEN <<>> ELSE String(value)

\* C18, amended: a value that is not null or undefined is quoted exactly when
\* its text needs it, and null and undefined are written as nothing; a row
\* parses back to as many fields, in order, each the text of its value ('' for
\* null and undefined).
C18_RoundTripOfTexts ==
  /\ (Returned("escapeCSV") /\ f_in[1][1].kind # "null") =>
       QuotedExactlyWhenNeeded(String(f_in[1][1]), f_ret[1].value)
  /\ (Returned("escapeCSV") /\ f_in[1][1].kind = "null") => f_ret[1].value = <<>>
  /\ Returned("toCSVRow") =>
       LET parsed == ParseCSVRow(f_ret[1].value)
       IN /\ Len(parsed) = Len(f_in[1])
          /\ \A k \in 1..Len(parsed) : parsed[k] = WrittenAs(f_in[1][k])

\* A row of two strings, one a double quote and one a comma, has been
\* written as the eight characters """",",".
C18_Witness ==
  /\ Returned("toCSVRow")
  /\ f_in[1] = <<StringValue(<<"\"">>), StringValue(<<",">>)>>
  /\ f_ret[1].value = <<"\"", "\"", "\"", "\"", ",", "\"", ",", "\"">>

\* C19: every row of the text of a file, the final row included, is followed
\* by CR LF.
C19_EveryRowTerminated ==
  Returned("generateCSV") =>
    LET text == f_ret[1].value
    IN /\ Len(text) >= 2
       /\ text[Len(text) - 1] = "\r" /\ text[Len(text)] = "\n"

\* What the value of a column is computed from: a part of the card, a part of
\* the export profile, or a constant of the template.
ColumnSource(column) ==
  CASE column \in
         {
          "*Action(SiteID=US|Country=US|Currency=USD|Version=1193|CC=UTF-8)",
          "Subtitle", "Relationship", "RelationshipDetails", "C:League",
          "C:Autographed", "C:Type", "GalleryType", "VideoID",
          "BestOfferEnabled", "BestOfferAutoAcceptPrice",
          "MinimumBestOfferPrice", "*Quantity", "ShippingService-2:Option",
          "ShippingService-2:Cost", "PromotionalShippingDiscount",
          "ShippingDiscountProfileID", "AdditionalDetails", "*C:League",
          "*C:Autographed", "*C:Type", "PayPalAccepted",
          "PayPalEmailAddress", "PaymentInstructions", "ShippingProfileName",
          "ReturnProfileName", "PaymentProfileName",
          "*Action(SiteID=US|Country=US|Currency=USD|Version=1193)"} -> "constant"
    [] column \in
         {
          "CustomLabel"} -> "customLabel"
    [] column \in
         {
          "*Category"} -> "profile.ebayCategory"
    [] column \in
         {
          "StoreCategory"} -> "profile.storeCategory"
    [] column \in
         {
          "*Title", "Title"} -> "title"
    [] column \in
         {
          "ScheduleTime"} -> "scheduleTime"
    [] column \in
         {
          "*ConditionID"} -> "conditionId"
    [] column \in
         {
          "CD:Professional Grader - (ID: 27501)", "C:Professional Grader"} -> "grader"
    [] column \in
         {
          "CD:Grade - (ID: 27502)", "C:Grade"} -> "grade"
    [] column \in
         {
          "CDA:Certification Number - (ID: 27503)", "C:Certification Number"} -> "certNo"
    [] column \in
         {
          "CD:Card Condition - (ID: 40001)", "C:Card Condition"} -> "cardCondition"
    [] column \in
         {
          "*C:Sport", "Category"} -> "card.category"
    [] column \in
         {
          "C:Player/Athlete", "C:Card Name", "*C:Player/Athlete",
          "*C:Card Name", "Name"} -> "card.name"
    [] column \in
         {
          "C:Season", "C:Year Manufactured", "Year"} -> "card.year"
    [] column \in
         {
          "C:Manufacturer", "*C:Manufacturer", "Brand"} -> "card.brand"
    [] column \in
         {
          "C:Parallel/Variety", "C:Features", "*C:Parallel/Variety",
          "*C:Features", "Subset/Parallel"} -> "card.subsetParallel"
    [] column \in
         {
          "C:Set", "*C:Set", "Set"} -> "card.setName"
    [] column \in
         {
          "C:Team", "*C:Team", "Team"} -> "card.team"
    [] column \in
         {
          "C:Card Number", "*C:Card Number", "Card #"} -> "card.cardNumber"
    [] column \in
         {
          "C:Graded", "*C:Graded"} -> "isGraded"
    [] column \in
         {
          "PicURL"} -> "imageUrls"
    [] column \in
         {
          "*Description"} -> "description"
    [] column \in
         {
          "*Format"} -> "ebayFormat"
    [] column \in
         {
          "*Duration"} -> "profile.durationDays"
    [] column \in
         {
          "*StartPrice"} -> "startPrice"
    [] column \in
         {
          "BuyItNowPrice"} -> "buyItNowPrice"
    [] column \in
         {
          "ImmediatePayRequired"} -> "profile.immediatePayment"
    [] column \in
         {
          "*Location"} -> "location"
    [] column \in
         {
          "ShippingType"} -> "shippingType"
    [] column \in
         {
          "ShippingService-1:Option"} -> "profile.shippingService"
    [] column \in
         {
          "ShippingService-1:Cost"} -> "shippingCost"
    [] column \in
         {
          "*DispatchTimeMax"} -> "profile.handlingTimeDays"
    [] column \in
         {
          "*ReturnsAcceptedOption", "ReturnsAcceptedOption"} -> "returnsOption"
    [] column \in
         {
          "ReturnsWithinOption"} -> "returnWindow"
    [] column \in
         {
          "RefundOption"} -> "profile.refundMethod"
    [] column \in
         {
          "ShippingCostPaidByOption"} -> "profile.shippingCostPaidBy"
    [] column \in
         {
          "PostalCode"} -> "profile.itemLocationZip"
    [] column \in
         {
          "ShippingService-1:FreeShipping"} -> "freeShippingFlag"
    [] column \in
         {
          "ShippingService-1:AdditionalCost"} -> "profile.eachAdditionalItemCost"
    [] column \in
         {
          "Images"} -> "imagePaths"
    [] column \in
         {
          "Status"} -> "card.status"
    [] column \in
         {
          "Listings"} -> "card.listings"
    [] column \in
         {
          "Sale Price"} -> "card.salePrice"
    [] column \in
         {
          "Attributes"} -> "card.attributes"
    [] column \in
         {
          "Variation"} -> "card.variation"
    [] column \in
         {
          "Graded"} -> "card.graded"
    [] column \in
         {
          "Grader"} -> "card.grader"
    [] column \in
         {
          "Condition"} -> "card.condition"
    [] column \in
         {
          "Cert No."} -> "card.certNo"

\* The position of a column in a header.
ColumnAt(header, column) == CHOOSE p \in 1..Len(header) : header[p] = column

\* C20: in every version of the eBay export and in the raw export a data row
\* has as many values as the header has columns, and the value at each
\* position is the one of the header's column at that position.
C20_Aligned ==
  /\ Returned("generateEbayCSV row") =>
       LET header == EBAY_FILE_EXCHANGE_HEADERS(f_in.version)
           row == f_ret[1].value
           cells == EbayRow(f_in.version, f_in.card, f_in.profile, f_in.index)
       IN /\ Len(row) = Len(header)
          /\ \A p \in 1..Len(header) :
               /\ row[p].of = ColumnSource(header[p])
               /\ header[p] = "*Title" => row[p].value = cells.Title
               /\ header[p] = "ScheduleTime" => row[p].value = cells.ScheduleTime
               /\ header[p] = "*ConditionID" => row[p].value = cells.ConditionID
               /\ header[p] \in {"CD:Card Condition - (ID: 40001)", "C:Card Condition"}
                    => row[p].value = cells.CardCondition
               /\ header[p] \in {"CD:Professional Grader - (ID: 27501)",
                                 "C:Professional Grader"}
                    => row[p].value = cells.ProfessionalGrader
  /\ Returned("generateRawCSV row") =>
       LET row == f_ret[1].value
       IN /\ Len(row) = Len(RAW_CSV_HEADERS)
          /\ \A p \in 1..Len(RAW_CSV_HEADERS) :
               /\ row[p].of = ColumnSource(RAW_CSV_HEADERS[p])
               /\ RAW_CSV_HEADERS[p] = "Card #" => row[p].value = f_in.card.cardNumber
               /\ RAW_CSV_HEADERS[p] = "Condition" => row[p].value = f_in.card.condition

\* The second card of a scheduled, staggered lot, ungraded and 'Excellent':
\* its schedule time and its condition stand under their columns.
C20_Witness ==
  /\ Returned("generateEbayCSV row")
  /\ f_in.version = 2 /\ f_in.index = 1
  /\ f_in.card.conditionType = UngradedType /\ f_in.card.condition = "Excellent"
  /\ LET header == EBAY_FILE_EXCHANGE_HEADERS(2)
         row == f_ret[1].value
     IN /\ Len(row) = 60
        /\ row[ColumnAt(header, "ScheduleTime")].value
             = <<[instant |-> 86400 + 60 + 15, zone |-> "server"]>>
        /\ row[ColumnAt(header, "CD:Card Condition - (ID: 40001)")].value = "Excellent"

\* C21: the raw file is one header row of 19 columns and one data row per
\* card, without info row; the eBay file is, in every version, one info row,
\* one header row of 30 to 55 columns, then one data row per card in the
\* order of the cards.
C21_FileShapes ==
  /\ Returned("generateRawCSV") =>
       LET rows == f_ret[1].value
       IN /\ Len(rows) = 1 + Len(f_in.cards)
          /\ rows[1].kind = "header" /\ Len(rows[1].values) = 19
          /\ \A k \in 1..Len(f_in.cards) :
               /\ rows[1 + k].kind = "data"
               /\ rows[1 + k].values = RawRowValues(f_in.cards[k])
  /\ Returned("generateEbayCSV") =>
       LET rows == f_ret[1].value
       IN /\ Len(rows) = 2 + Len(f_in.cards)
          /\ rows[1].kind = "info"
          /\ rows[2].kind = "header"
          /\ Len(rows[2].values) >= 30 /\ Len(rows[2].values) <= 55
          /\ \A k \in 1..Len(f_in.cards) :
               /\ rows[2 + k].kind = "data"
               /\ rows[2 + k].values
                    = EbayRowValues(f_in.version, f_in.cards[k], f_in.profile, k - 1)

\* The images in some ascending order of sortOrder, each once.
AscendingOrders(images) ==
  {[k \in 1..Len(images) |-> images[perm[k]]] :
     perm \in {p \in [1..Len(images) -> 1..Len(images)] :
                 /\ \A i, j \in 1..Len(images) : i # j => p[i] # p[j]
                 /\ \A i, j \in 1..Len(images) :
                      i < j => images[p[i]].sortOrder <= images[p[j]].sortOrder}}

\* The entries of a PicURL field one after the other, '|' between them.
RECURSIVE Piped(_)
Piped(entries) ==
  IF entries = <<>> THEN <<>>
  ELSE IF Len(entries) = 1 THEN entries[1]
  ELSE entries[1] \o <<"|">> \o Piped(Tail(entries))

\* C22: PicURL lists each image of the card once, ascending by sortOrder,
\* joined by '|'; an entry is the base followed by the percent-encoded path
\* when a base URL is supplied and the raw path when none is.
C22_PicUrl ==
  Returned("imageUrls") =>
    \E sorted \in AscendingOrders(f_in.images) :
      f_ret[1].value =
        Piped([k \in 1..Len(sorted) |->
                 IF f_in.imageBaseUrl # <<>>
                   THEN f_in.imageBaseUrl \o encodeURIComponent(sorted[k].originalPath)
                   ELSE sorted[k].originalPath])

\* C22, amended: with a base URL an entry is the base, then '/api/images/',
\* then the percent-encoded path.
C22_PicUrlThroughImagesRoute ==
  Returned("imageUrls") =>
    \E sorted \in AscendingOrders(f_in.images) :
      f_ret[1].value =
        Piped([k \in 1..Len(sorted) |->
                 IF f_in.imageBaseUrl # <<>>
                   THEN f_in.imageBaseUrl \o <<"/", "a", "p", "i", "/">>
                          \o <<"i", "m", "a", "g", "e", "s", "/">>
                          \o encodeURIComponent(sorted[k].originalPath)
                   ELSE sorted[k].originalPath])

\* Two images read in descending order, with a base URL: the field has the
\* lower one first, its slashes encoded.
C22_Witness ==
  /\ Returned("imageUrls")
  /\ Len(f_in.images) = 2 /\ f_in.imageBaseUrl # <<>>
  /\ f_in.images[1].sortOrder = 1 /\ f_in.images[2].sortOrder = 0
  /\ f_in.images[2].originalPath = <<"u", "/", "a", "_", "1", ".", "j">>
  /\ SubSeq(f_ret[1].value, 1, 28) =
       <<"h", ":", "/", "/", "x", "/", "a", "p", "i", "/", "i", "m", "a", "g", "e", "s", "/",
         "u", "%", "2", "F", "a", "_", "1", ".", "j", "|", "h">>

\* A character of [A-Za-z0-9_].
WordChar(c) ==
  c \in {"_", "0", "1", "2", "3", "4", "5", "6", "7", "8", "9"}
    \/ \E k \in 1..26 :
         c \in {<<"a", "b", "c", "d", "e", "f", "g", "h", "i", "j", "k", "l", "m", "n",
                  "o", "p", "q", "r", "s", "t", "u", "v", "w", "x", "y", "z">>[k],
                <<"A", "B", "C", "D", "E", "F", "G", "H", "I", "J", "K", "L", "M", "N",
                  "O", "P", "Q", "R", "S", "T", "U", "V", "W", "X", "Y", "Z">>[k]}

\* The name with every character outside [A-Za-z0-9_] removed, cut to 30.
StrippedName(name) ==
  LET kept == SelectSeq(name, WordChar)
  IN IF Len(kept) <= 30 THEN kept ELSE SubSeq(kept, 1, 30)

\* '{name}_{item count}_items_{kind}_{MM-dd-yy}.csv'
PatternName(name, count, kind, date) ==
  StrippedName(name) \o <<"_">> \o NumberText(count) \o <<"_", "i", "t", "e", "m", "s", "_">>
    \o kind \o <<"_">>
    \o <<DigitChar(date.month \div 10), DigitChar(date.month % 10), "-",
         DigitChar(date.day \div 10), DigitChar(date.day % 10), "-",
         DigitChar((date.year % 100) \div 10), DigitChar(date.year % 10)>>
    \o <<".", "c", "s", "v">>

\* C23: the download is named '{name}_{count}_items_{raw|ebay_export}_{MM-dd-yy}.csv',
\* {name} the lot name without the characters outside [A-Za-z0-9_], cut to
\* 30; the kind is 'raw' for the raw export, 'ebay_export' for the eBay one.
C23_Filename ==
  /\ Returned("raw filename") =>
       f_ret[1].value = PatternName(f_in.name, f_in.count, <<"r", "a", "w">>, f_in.date)
  /\ Returned("ebay filename") =>
       f_ret[1].value =
         PatternName(f_in.name, f_in.count,
                     <<"e", "b", "a", "y", "_", "e", "x", "p", "o", "r", "t">>, f_in.date)

\* The file names of the groups, group by group and position by position.
NamesOf(groups) ==
  [k \in 1..Len(groups) |-> [x \in 1..Len(groups[k]) |-> groups[k][x].filename]]

\* The same images supplied in another order.
Reorderings(images) ==
  {[k \in 1..Len(images) |-> images[perm[k]]] :
     perm \in InjSeqs(1..Len(images), Len(images))}

\* C24: the comparator of sortImages reports two filenames equal only when
\* they are identical, and so groupImages forms the same groups, the same
\* images at the same positions, whatever order the images are supplied in.
C24_OrderIndependent ==
  (g_pc = "done" /\ g_n > 0) =>
    /\ \A i, j \in 1..Len(g_images) :
         localeCompare(g_images[i].filename, g_images[j].filename) = 0
           => g_images[i].filename = g_images[j].filename
    /\ \A other \in Reorderings(g_images) :
         NamesOf(groupImages(other, g_n)) = NamesOf(g_groups)

\* The card at position k (sortOrder k - 1) and its image at position x.
CardAt(k) == CHOOSE c \in cardItems : c.sortOrder = k - 1
ImageAt(k, x) == CHOOSE img \in ImagesOf(CardAt(k).id) : img.sortOrder = x - 1

\* The lot is what a regroup with group size 2 leaves: cards 0..n-1 of two
\* images each (the last of one or two) at positions 0 and 1, the file names
\* ascending from card to card and inside each card.
RegroupedByTwo ==
  LET n == Cardinality(cardItems)
  IN /\ n > 0
     /\ {c.sortOrder : c \in cardItems} = 0..(n - 1)
     /\ \A c \in cardItems :
          LET S == ImagesOf(c.id)
          IN /\ Cardinality(S) \in (IF c.sortOrder < n - 1 THEN {2} ELSE {1, 2})
             /\ {img.sortOrder : img \in S} = 0..(Cardinality(S) - 1)
     /\ \A a, b \in cardImages :
          (\/ CardOf(a).sortOrder < CardOf(b).sortOrder
           \/ (a.cardItemId = b.cardItemId /\ a.sortOrder < b.sortOrder))
            => localeCompare(a.filename, b.filename) <= 0

\* C25: a regroup with group size 2 of a lot that a regroup with group size 2
\* has left computes the cards the lot already has: the same images in the
\* same cards at the same positions.
C25_Idempotent ==
  [][(RegroupBegin(1, <<"2">>) /\ req[2].pc = "idle" /\ RegroupedByTwo
        /\ req'[1].pc = "grouped")
       => GroupsView(req'[1].newGroups) = View]_vars

\* The PATCH that a step of saveChanges sends, if the step sends one.
SavesNow ==
  /\ Len(inFlight') = Len(inFlight) + 1
  /\ inFlight'[Len(inFlight')].kind = "saveChanges"

\* Every cell edit is either still queued with its value or has been sent.
C26_NoEditDropped ==
  \A c \in PageCards : \A f \in PageFields :
    lastEdit[c][f] # 0 =>
      \/ c \in DOMAIN pendingChanges /\ f \in DOMAIN pendingChanges[c]
           /\ pendingChanges[c][f] = lastEdit[c][f]
      \/ <<c, f, lastEdit[c][f]>> \in patched

\* saveChanges sends when the debounce delay has passed since the last edit.
C26_AfterLastEdit == [][SavesNow => sinceEdit = DEBOUNCE_MS]_vars

\* The latest value of every edited cell is sent.
C26_EventuallySent ==
  \A c \in PageCards : \A f \in PageFields : \A v \in 1..MaxEdits :
    (lastEdit[c][f] = v) ~> (<<c, f, v>> \in patched \/ lastEdit[c][f] # v)

\* C26: every edit made through handleCellChange is sent to the server in a
\* bulk PATCH that carries the latest value of each edited card and field,
\* 500 ms after the last edit; no edit is dropped when several edits arrive
\* before the timer fires or while an earlier save is in flight.
C26_AutoSave ==
  /\ []C26_NoEditDropped
  /\ C26_AfterLastEdit
  /\ C26_EventuallySent

\* The page takes the answer to request i, a PATCH that saveChanges sent.
ReceivesSave(i) ==
  /\ i \in 1..Len(inFlight) /\ inFlight[i].kind = "saveChanges"
  /\ inFlight' = RemoveAt(inFlight, i)

\* C29: the answer to a bulk PATCH never overwrites a newer local edit: the
\* cells edited after the request was sent still show the user's value and
\* remain pending.
C29_KeepsNewerEdits ==
  [][\A i \in 1..MaxEdits :
       ReceivesSave(i) =>
         /\ pendingChanges' = pendingChanges
         /\ \A c \in DOMAIN pendingChanges : \A f \in DOMAIN pendingChanges[c] :
              lot'[c][f] = lot[c][f]]_vars

\* C27: the cards an import creates are the groups of the import page's
\* preview: the image at position i of the list as the user arranged it is in
\* card number floor(i / imagesPerCard) at position i mod imagesPerCard.
C27_PreviewIsResult ==
  (cardItems # {} /\ filesWithUrls # <<>>) =>
    \A i \in 0..(Len(filesWithUrls) - 1) :
      \E c \in cardItems : \E img \in ImagesOf(c.id) :
        /\ c.sortOrder = i \div selectedPerCard
        /\ img.sortOrder = i % selectedPerCard
        /\ \E t \in 1..MaxClock : img.filename = uniqueFilename(filesWithUrls[i + 1], t)

\* C28: in every state that uploads (a second upload into a lot that has
\* cards included), regroups, clones and deletions reach, the sortOrder
\* values of the lot's cards are pairwise distinct.
C28_DistinctSortOrders ==
  \A a, b \in cardItems : a.id # b.id => a.sortOrder # b.sortOrder

\* C30: every regroup and every upload request ends with a response, whatever
\* imagesPerCard it carries (missing, not a number, 0, negative, positive):
\* a regroup the server has begun is answered, and no handler is ever left in
\* a loop that does not end.
C30_Answered ==
  /\ (req[1].pc # "idle") ~> (req[1].pc = "idle")
  /\ []~serverHung
====
